---- MODULE Spec2Model ----
(***************************************************************************)
(* A model of the Kwatta HTTP client of src/lib/index.ts (class Kwatta,    *)
(* lines 252-578): default headers, bearer-token authentication, the       *)
(* rate-limit wait, the time-to-live response cache, the middleware chain  *)
(* and the success/error event broadcast around performRequest.            *)
(*                                                                         *)
(* One call of a verb method is a coroutine.  Its atomic blocks are the    *)
(* stretches of performRequest between two suspension points (the          *)
(* rate-limit setTimeout, the await of applyMiddlewares, the await of      *)
(* fetch and the await of response.json()); calls, timers, the transport   *)
(* and the caller's own configuration calls interleave between blocks.     *)
(***************************************************************************)
EXTENDS Integers, Sequences, FiniteSets, TLC

----------------------------------------------------------------------------
\* Bounds of the model.

\* Number of verb-method calls issued in one behaviour.
MaxCalls == 3
\* Number of calls that may be in progress at once.
MaxInFlight == 2
\* Number of clock ticks explored after construction.
MaxTick == 3
\* Date.now() when the client is constructed.
StartTime == 1000
\* Longest list of registered event handlers.
MaxHandlers == 2
\* Longest middleware chain.
MaxMiddlewares == 2

\* Program constants set by the constructor.
DEFAULT_RATE_LIMIT_DELAY == 1000
DEFAULT_CACHE_LIFETIME == 60000

BaseURL == "https://x"
DEFAULT_HEADERS == ("Content-Type" :> "application/json")
DEFAULT_AUTH_HEADER == "Authorization"

----------------------------------------------------------------------------
\* JavaScript values.

Undefined == [type |-> "undefined"]
JNull == [type |-> "null"]
JFalse == [type |-> "bool", b |-> FALSE]
JZero == [type |-> "num", n |-> 0]
JEmptyString == [type |-> "str", s |-> ""]
JObj(i) == [type |-> "obj", id |-> i]
\* The string holding the JSON text of v.
JsonText(v) == [type |-> "json", of |-> v]
\* A multipart form payload.
FormData(i) == [type |-> "formdata", id |-> i]
\* A response body that is not JSON.
Malformed == [type |-> "malformed"]

\* JavaScript truthiness, as used by `if (x)` and `x ? a : b`.
Truthy(v) ==
  CASE v.type = "undefined" -> FALSE
    [] v.type = "null" -> FALSE
    [] v.type = "bool" -> v.b
    [] v.type = "num" -> v.n # 0
    [] v.type = "str" -> v.s # ""
    [] OTHER -> TRUE

\* JSON.stringify: undefined stays undefined, anything else becomes text.
JSONstringify(v) == IF v.type = "undefined" THEN Undefined ELSE JsonText(v)

\* String.prototype.toLowerCase on the method names the verbs pass.
toLowerCase(method) ==
  CASE method = "GET" -> "get"
    [] method = "POST" -> "post"
    [] method = "PUT" -> "put"
    [] method = "PATCH" -> "patch"
    [] method = "DELETE" -> "delete"
    [] method = "HEAD" -> "head"
    [] method = "OPTIONS" -> "options"
    [] OTHER -> method

\* An optional value: <<>> is undefined, <<v>> is v.
None == << >>
Some(v) == <<v>>

----------------------------------------------------------------------------
\* Errors.

\* The error built for a non-ok response: message and status field.
HttpError(method, url, status) ==
  [name |-> "Error", status |-> status,
   message |-> <<"Failed to ", toLowerCase(method), " data to ", url,
                 ". Status: ", status>>]
\* What the transport raises: a network failure, an abort.
NetworkError == [name |-> "FetchError"]
AbortError == [name |-> "AbortError"]
\* What response.json() raises on a body that is not JSON.
SyntaxError == [name |-> "SyntaxError"]
\* What reading a property of null or undefined raises.
TypeError == [name |-> "TypeError"]
\* What a throwing middleware or handler raises.
MiddlewareError(m) == [name |-> "MiddlewareError", by |-> m]
HandlerError(h, type) == [name |-> "HandlerError", by |-> h, on |-> type]

\* response.ok
ResponseOk(status) == status >= 200 /\ status <= 299

----------------------------------------------------------------------------
\* Event handlers and middlewares the caller may register.

\* hLog returns normally; hThrow throws on every event;
\* hThrowOnSuccess throws on "success" events only; hOnce and hAddsLog
\* return normally after changing the handler list (HandlerLeaves).
HandlerThrows(h, type) ==
  \/ h = "hThrow"
  \/ h = "hThrowOnSuccess" /\ type = "success"

\* Object spread / Object.assign: the entries of `over` win.
Assign(base, over) == over @@ base

\* delete obj[key]
DeleteKey(obj, key) == [k \in (DOMAIN obj) \ {key} |-> obj[k]]

HeaderOr(headers, name, default) ==
  IF name \in DOMAIN headers THEN headers[name] ELSE default

\* What a middleware does with the options it is given:
\*   addCustomHeader  returns the options with X-Custom-Header added
\*   logMiddleware    returns the options it was given
\*   markA, markB     return the options with "A" / "B" appended to X-Mark
\*   setAuth          returns the options with Authorization overwritten
\*   clearHeaders     returns the options with an empty headers object
\*   returnsNothing   returns undefined
\*   returnsNull      returns null
\*   freshOptions     returns a new object with the method, the headers and
\*                    the body of the options, and nothing else
\*   stampInPlace     sets X-Stamp on the headers of the object it was
\*                    given and returns undefined
\*   throwsNull       throws null
\*   throws           throws an error
MiddlewareCall(m, options) ==
  CASE m = "addCustomHeader" ->
         [kind |-> "value",
          options |-> [options EXCEPT !.headers =
             Assign(@, "X-Custom-Header" :> "Custom Header Value")],
          by |-> m]
    [] m = "logMiddleware" ->
         [kind |-> "value", options |-> options, by |-> m]
    [] m = "markA" ->
         [kind |-> "value",
          options |-> [options EXCEPT !.headers =
             Assign(@, "X-Mark" :> (HeaderOr(@, "X-Mark", "") \o "A"))],
          by |-> m]
    [] m = "markB" ->
         [kind |-> "value",
          options |-> [options EXCEPT !.headers =
             Assign(@, "X-Mark" :> (HeaderOr(@, "X-Mark", "") \o "B"))],
          by |-> m]
    [] m = "setAuth" ->
         [kind |-> "value",
          options |-> [options EXCEPT !.headers =
             Assign(@, "Authorization" :> "forged")],
          by |-> m]
    [] m = "freshOptions" ->
         [kind |-> "value",
          options |-> [method |-> options.method, headers |-> options.headers,
                       signal |-> FALSE, body |-> options.body],
          by |-> m]
    [] m = "clearHeaders" ->
         [kind |-> "value",
          options |-> [options EXCEPT !.headers = << >>],
          by |-> m]
    [] m \in {"returnsNothing", "returnsNull", "stampInPlace"} ->
         [kind |-> "nothing", options |-> options, by |-> m]
    [] m = "throwsNull" ->
         [kind |-> "throw", options |-> options, by |-> m, error |-> JNull]
    [] OTHER -> [kind |-> "throw", options |-> options, by |-> m,
                 error |-> MiddlewareError(m)]

\* The object a middleware was given, as the middleware left it: the
\* middleware receives a reference to modifiedOptions.
AfterCall(m, options) ==
  IF m = "stampInPlace"
    THEN [options EXCEPT !.headers = Assign(@, "X-Stamp" :> "1")]
    ELSE options

----------------------------------------------------------------------------
\* The client's state.

VARIABLES
  now,                   \* Date.now()
  authToken,             \* None until setAuthToken, then Some(token)
  authHeaderName,
  includeBearerPrefix,
  rateLimitDelay,
  lastRequestTimestamp,
  eventHandlers,         \* sequence of handlers, in registration order
  cache,                 \* key -> [data, timestamp], for the keys present
  cacheLifetime,
  middlewares,           \* sequence of middlewares, in registration order
  calls,                 \* call id -> the call's coroutine state and history
  hist                   \* history of the configuration calls; storedBy
                         \* maps a key to the request of the call that
                         \* last stored a response under it; removed
                         \* holds the handlers whose latest add or remove
                         \* call was a remove made while registered, and
                         \* removedOnce those registered once at that call

vars == <<now, authToken, authHeaderName, includeBearerPrefix, rateLimitDelay,
          lastRequestTimestamp, eventHandlers, cache, cacheLifetime,
          middlewares, calls, hist>>

\* The slots of the table of calls.  A call takes the first slot that holds no
\* call in progress; the record of a settled call stays in its slot until a
\* new call takes it.
CallIds == 1..MaxInFlight

NoOptions ==
  [method |-> "", headers |-> << >>, signal |-> FALSE, body |-> Undefined]
NoResponse == [status |-> 0, body |-> Undefined]
NoPending == [kind |-> "nothing", options |-> NoOptions, by |-> ""]
ChainReturn == [kind |-> "return", options |-> NoOptions, by |-> ""]
\* The request of a call, as far as two calls for one key may differ.
NoRequest == [body |-> Undefined, headers |-> << >>, token |-> None]
NoAuth == [token |-> None, headerName |-> "", bearer |-> FALSE]
Pending == [kind |-> "pending", value |-> Undefined]

\* A call that has not been issued.
IdleCall ==
  [pc |-> "idle", method |-> "", path |-> "", headers |-> << >>,
   body |-> Undefined, timeout |-> 0,
   wakeAt |-> 0, options |-> NoOptions, mwIdx |-> 0,
   mwPending |-> NoPending,
   abortAt |-> -1, timerFired |-> FALSE, response |-> NoResponse,
   result |-> Pending,
   \* history of the call
   issuedAt |-> -1,
   entryTs |-> 0, entryDelay |-> 0, entryWriter |-> "init",
   prevSettled |-> TRUE, prevDispatchAt |-> -1, waited |-> FALSE, nextAfterClear |-> FALSE,
   restoredAtLookup |-> FALSE,
   lookedUp |-> FALSE, lookupAt |-> -1, lookupLifetime |-> 0,
   lookupHad |-> FALSE, lookupTs |-> -1, lookupData |-> Undefined,
   lookupBy |-> NoRequest, lookupToken |-> None,
   keptAfterLookup |-> FALSE,
   mwAtEntry |-> 0, mwLog |-> << >>,
   authAtDispatch |-> NoAuth, handlersAtEvent |-> << >>,
   removedAtEvent |-> {}, removedOnceAtEvent |-> {},
   dispatchAt |-> -1, dispatches |-> 0, sent |-> NoOptions,
   decodedAt |-> -1, stored |-> None, tsBefore |-> -1, tsAfter |-> -1,
   broadcasts |-> << >>, notified |-> << >>, raised |-> None]

Init ==
  /\ now = StartTime
  /\ authToken = None
  /\ authHeaderName = DEFAULT_AUTH_HEADER
  /\ includeBearerPrefix = TRUE
  /\ rateLimitDelay = DEFAULT_RATE_LIMIT_DELAY
  /\ lastRequestTimestamp = 0
  /\ eventHandlers = << >>
  /\ cache = << >>
  /\ cacheLifetime = DEFAULT_CACHE_LIFETIME
  /\ middlewares = << >>
  /\ calls = [c \in CallIds |-> IdleCall]
  /\ hist = [issued |-> 0, last |-> 0, tsWriter |-> "init",
             cleared |-> {}, restored |-> {},
             removed |-> {}, removedOnce |-> {}, storedBy |-> << >>]

----------------------------------------------------------------------------
\* Helpers of the class.

url(path) == BaseURL \o path
cacheKey(method, u) == method \o ":" \o u

\* buildHeaders: the defaults, overridden by the caller's headers.
buildHeaders(customHeaders) == Assign(DEFAULT_HEADERS, customHeaders)

\* An expiry test that still accepts an item at the end of its lifetime.
CacheFreshInclusive(store, key, lifetime, t) ==
  key \in DOMAIN store /\ t - store[key].timestamp <= lifetime

\* Whether getFromCache finds an item under key that has not expired.
CacheFresh(store, key, lifetime, t) ==
  key \in DOMAIN store /\ t - store[key].timestamp < lifetime

\* A lookup that renews the timestamp of the item it returns.
getFromCacheTouches(store, key, lifetime, t) ==
  IF CacheFresh(store, key, lifetime, t)
    THEN [data |-> store[key].data,
          cache |-> [store EXCEPT ![key].timestamp = t]]
    ELSE [data |-> Undefined, cache |-> DeleteKey(store, key)]

\* A lookup that also sweeps the expired items of the other keys.
getFromCacheSweeps(store, key, lifetime, t) ==
  LET kept == [k \in {j \in DOMAIN store : CacheFresh(store, j, lifetime, t)}
                 |-> store[k]]
  IN IF CacheFresh(store, key, lifetime, t)
       THEN [data |-> store[key].data, cache |-> kept]
       ELSE [data |-> Undefined, cache |-> kept]

\* getFromCache: the data of a fresh item; otherwise the key is deleted and
\* the answer is undefined.  The result pairs the answer with the store.
getFromCache(store, key, lifetime, t) ==
  IF CacheFresh(store, key, lifetime, t)
    THEN [data |-> store[key].data, cache |-> store]
    ELSE [data |-> Undefined, cache |-> DeleteKey(store, key)]

\* A store that keeps the entry a key already has.
addToCacheKeepsFirst(store, key, data, t) ==
  [k \in (DOMAIN store) \cup {key} |->
     IF k \in DOMAIN store THEN store[k] ELSE [data |-> data, timestamp |-> t]]

\* addToCache
addToCache(store, key, data, t) ==
  [k \in (DOMAIN store) \cup {key} |->
     IF k = key THEN [data |-> data, timestamp |-> t] ELSE store[k]]

\* `if (cachedData)` in performRequest: the test that decides a cache hit.
CacheHit(cachedData) == Truthy(cachedData)

\* A limiter that wakes one millisecond early.
RateLimitWaitShort(t, lastTs, delay) ==
  IF t - lastTs < delay THEN delay - (t - lastTs) - 1 ELSE 0

\* A limiter that waits the whole delay from now.
RateLimitWaitFromNow(t, lastTs, delay) ==
  IF t - lastTs < delay THEN delay ELSE 0

\* The wait performRequest computes on entry: 0 when none is needed.
RateLimitWait(t, lastTs, delay) ==
  IF t - lastTs < delay THEN delay - (t - lastTs) ELSE 0

\* The body put in the request options.
OptionsBody(body) ==
  IF body.type = "formdata" THEN body
  ELSE IF Truthy(body) THEN JSONstringify(body) ELSE Undefined

\* An auth header value that always carries the prefix.
AuthTokenValueAlwaysBearer(token, bearer) == "Bearer " \o token

\* The value of the auth header.
AuthTokenValue(token, bearer) == IF bearer THEN "Bearer " \o token ELSE token

\* `this.authToken && includeAuthHeader`; the verbs never pass
\* includeAuthHeader, so its default, true, applies.
AuthConfigured(tok) == tok # None /\ tok[1] # ""

\* A final stage in which the auth header yields to a header of the same
\* name already in the options.
FinalOptionsAuthUnderneath(options, body, tok, headerName, bearer) ==
  IF AuthConfigured(tok)
    THEN [options EXCEPT !.headers =
            Assign(headerName :> AuthTokenValue(tok[1], bearer), @)]
    ELSE options

\* The options handed to fetch, from the options the middleware chain
\* produced: Content-Type dropped for a multipart body, then the auth header.
FinalOptions(options, body, tok, headerName, bearer) ==
  LET o1 == IF body.type = "formdata" /\ "Content-Type" \in DOMAIN options.headers
              THEN [options EXCEPT !.headers = DeleteKey(@, "Content-Type")]
              ELSE options
  IN IF AuthConfigured(tok)
       THEN [o1 EXCEPT !.headers =
               Assign(@, headerName :> AuthTokenValue(tok[1], bearer))]
       ELSE o1

\* indexOf: the first position of handler, 0 when it is not registered.
indexOf(list, x) ==
  IF \E i \in 1..Len(list) : list[i] = x
    THEN CHOOSE i \in 1..Len(list) :
           list[i] = x /\ \A j \in 1..(i - 1) : list[j] # x
    ELSE 0

\* A splice that removes nothing.
spliceNone(list, index) == list

\* splice(index, 1)
spliceOne(list, index) ==
  [i \in 1..(Len(list) - 1) |-> IF i < index THEN list[i] ELSE list[i + 1]]

\* What handler h, when it is called, does to the handler list of the
\* client:
\*   hOnce      calls removeEventHandler on itself
\*   hAddsLog   calls addEventHandler(hLog), as long as the list has room
\* The other handlers leave the list alone.
HandlerLeaves(h, handlers) ==
  CASE h = "hOnce" ->
         IF indexOf(handlers, h) # 0
           THEN spliceOne(handlers, indexOf(handlers, h))
           ELSE handlers
    [] h = "hAddsLog" ->
         IF Len(handlers) < MaxHandlers THEN Append(handlers, "hLog")
         ELSE handlers
    [] OTHER -> handlers

\* The handler list after the handlers of the deliveries ds have run, in
\* that order, on the list handlers.
RECURSIVE AfterDeliveries(_, _)
AfterDeliveries(handlers, ds) ==
  IF ds = << >> THEN handlers
  ELSE AfterDeliveries(HandlerLeaves(Head(ds).handler, handlers), Tail(ds))

\* notifyEvent: forEach over this.eventHandlers.  The positions i..len are
\* visited in order, len being the length of the array when the forEach
\* began; a position the array no longer has is passed over; the handler
\* at a position is called with the event on the array as the handlers
\* called before it left it; a handler that throws ends the forEach.  The
\* result is the deliveries made and the exception that escaped, if any.
RECURSIVE NotifyFrom(_, _, _, _, _, _)
NotifyFrom(handlers, i, len, type, payload, delivered) ==
  IF i > len THEN [delivered |-> delivered, thrown |-> None]
  ELSE IF i > Len(handlers)
    THEN NotifyFrom(handlers, i + 1, len, type, payload, delivered)
  ELSE LET d == Append(delivered,
                       [handler |-> handlers[i], type |-> type,
                        payload |-> payload])
       IN IF HandlerThrows(handlers[i], type)
            THEN [delivered |-> d,
                  thrown |-> Some(HandlerError(handlers[i], type))]
            ELSE NotifyFrom(HandlerLeaves(handlers[i], handlers), i + 1, len,
                            type, payload, d)

\* A broadcast that calls every handler and swallows what a handler throws.
notifyEventIsolating(handlers, type, payload) ==
  [delivered |-> [i \in 1..Len(handlers) |->
                    [handler |-> handlers[i], type |-> type,
                     payload |-> payload]],
   thrown |-> None]

\* A broadcast that stops after the first handler.
notifyEventFirstOnly(handlers, type, payload) ==
  IF Len(handlers) = 0 THEN [delivered |-> << >>, thrown |-> None]
  ELSE NotifyFrom(<<handlers[1]>>, 1, 1, type, payload, << >>)

notifyEvent(handlers, type, payload) ==
  NotifyFrom(handlers, 1, Len(handlers), type, payload, << >>)

\* this.eventHandlers as the deliveries an atomic block has made so far
\* left it, for the call record rec of that block.
CurrentHandlers(rec) == AfterDeliveries(eventHandlers, rec.notified)

----------------------------------------------------------------------------
\* The blocks of performRequest, as functions of the call's record.

\* A catch block that throws the error again without broadcasting it.
CatchBlockNoBroadcast(rec, error) ==
  [rec EXCEPT !.pc = "done",
              !.handlersAtEvent = eventHandlers,
              !.raised = IF @ = None THEN Some(error) ELSE @,
              !.result = [kind |-> "rejected", value |-> error]]

\* A catch block that keeps the error from the handlers when the call has
\* already broadcast its success.
CatchBlockOneEventPerCall(rec, error) ==
  LET r == notifyEvent(eventHandlers, "error", error)
      seen == [rec EXCEPT !.pc = "done",
                          !.handlersAtEvent = eventHandlers,
                          !.removedAtEvent = hist.removed,
                          !.removedOnceAtEvent = hist.removedOnce,
                          !.raised = IF @ = None THEN Some(error) ELSE @]
  IN IF error \in {JNull, Undefined}
       THEN [seen EXCEPT !.result = [kind |-> "rejected", value |-> TypeError]]
       ELSE IF rec.broadcasts # << >>
         THEN [seen EXCEPT !.result = [kind |-> "rejected", value |-> error]]
         ELSE [seen EXCEPT
                 !.broadcasts = Append(@, "error"),
                 !.notified = @ \o r.delivered,
                 !.result = [kind |-> "rejected",
                             value |-> IF r.thrown # None THEN r.thrown[1]
                                       ELSE error]]

\* The catch block: the error's message is logged, the error is broadcast,
\* then thrown again.  Reading the message of null or undefined throws
\* before the broadcast.  A handler that throws during the broadcast
\* replaces the error thrown to the caller.
CatchBlock(rec, error) ==
  LET r == notifyEvent(CurrentHandlers(rec), "error", error)
      seen == [rec EXCEPT !.pc = "done",
                          !.handlersAtEvent = CurrentHandlers(rec),
                          !.removedAtEvent = hist.removed,
                          !.removedOnceAtEvent = hist.removedOnce,
                          !.raised = IF @ = None THEN Some(error) ELSE @]
  IN IF error \in {JNull, Undefined}
       THEN [seen EXCEPT !.result = [kind |-> "rejected", value |-> TypeError]]
       ELSE [seen EXCEPT
               !.broadcasts = Append(@, "error"),
               !.notified = @ \o r.delivered,
               !.result = [kind |-> "rejected",
                           value |-> IF r.thrown # None THEN r.thrown[1]
                                     ELSE error]]


\* A chain that ignores what a middleware returns.
CoalesceKeepsInput(p, options) == options

\* A chain without the `??`: what a middleware returned, nothing included,
\* becomes the options.
CoalesceTakesNothing(p, options) ==
  IF p.kind = "value" THEN p.options ELSE NoOptions

\* `result ?? modifiedOptions`: what a middleware returned, unless it is null
\* or undefined.
Coalesce(p, options) == IF p.kind = "value" THEN p.options ELSE options

\* The call of the next middleware of the chain, if there is one; otherwise
\* the loop is over and applyMiddlewares returns the options.
ChainStep(rec, options) ==
  IF rec.mwIdx < Len(middlewares)
    THEN LET m == middlewares[rec.mwIdx + 1]
         IN [rec EXCEPT !.pc = "mw", !.options = AfterCall(m, options),
                        !.mwIdx = @ + 1,
                        !.mwPending = MiddlewareCall(m, options),
                        !.mwLog = Append(@, [mw |-> m, input |-> options])]
    ELSE [rec EXCEPT !.pc = "mw", !.options = options,
                     !.mwPending = ChainReturn]

\* From the cache lookup to the first suspension of applyMiddlewares.
LookupBlock(rec) ==
  LET key == cacheKey(rec.method, url(rec.path))
      r == getFromCache(cache, key, cacheLifetime, now)
      seen == [rec EXCEPT
                 !.lookedUp = TRUE,
                 !.lookupAt = now,
                 !.lookupLifetime = cacheLifetime,
                 !.lookupHad = key \in DOMAIN cache,
                 !.lookupTs = IF key \in DOMAIN cache
                                THEN cache[key].timestamp ELSE -1,
                 !.lookupData = IF key \in DOMAIN cache THEN cache[key].data
                                ELSE Undefined,
                 !.lookupBy = IF key \in DOMAIN cache THEN hist.storedBy[key]
                              ELSE NoRequest,
                 !.lookupToken = authToken,
                 !.keptAfterLookup = key \in DOMAIN r.cache,
                 !.restoredAtLookup = key \in hist.restored]
      options == [method |-> rec.method, headers |-> buildHeaders(rec.headers),
                  signal |-> TRUE, body |-> OptionsBody(rec.body)]
  IN [cache |-> r.cache,
      rec |-> IF CacheHit(r.data)
                THEN [seen EXCEPT !.pc = "done",
                                  !.handlersAtEvent = eventHandlers,
                                  !.removedAtEvent = hist.removed,
                                  !.removedOnceAtEvent = hist.removedOnce,
                                  !.result = [kind |-> "resolved",
                                              value |-> r.data]]
                ELSE ChainStep(seen, options)]

\* A dispatch whose abort timer counts from the cache lookup.
DispatchBlockTimerFromLookup(rec, options) ==
  [rec EXCEPT !.pc = "fetch",
              !.options = options,
              !.authAtDispatch = [token |-> authToken,
                                  headerName |-> authHeaderName,
                                  bearer |-> includeBearerPrefix],
              !.abortAt = IF rec.timeout # 0 THEN rec.lookupAt + rec.timeout
                          ELSE -1,
              !.dispatchAt = now,
              !.dispatches = @ + 1,
              !.sent = FinalOptions(options, rec.body, authToken,
                                    authHeaderName, includeBearerPrefix)]

\* The dispatch: the options are completed, the abort timer is started and
\* fetch is called.
DispatchBlock(rec, options) ==
  [rec EXCEPT !.pc = "fetch",
              !.options = options,
              !.authAtDispatch = [token |-> authToken,
                                  headerName |-> authHeaderName,
                                  bearer |-> includeBearerPrefix],
              !.abortAt = IF rec.timeout # 0 THEN now + rec.timeout ELSE -1,
              !.dispatchAt = now,
              !.dispatches = @ + 1,
              !.sent = FinalOptions(options, rec.body, authToken,
                                    authHeaderName, includeBearerPrefix)]

----------------------------------------------------------------------------
\* The operations of the client.

\* Slot c holds no call in progress.
Free(c) == calls[c].pc \in {"idle", "done"}

\* performRequest up to its first suspension: the rate-limit check, then
\* either the wait or, at once, the cache lookup.  The call takes the first
\* free slot.
performRequest(c, method, path, headers, body, timeout) ==
  /\ hist.issued < MaxCalls
  /\ Free(c)
  /\ \A d \in CallIds : d < c => ~Free(d)
  /\ LET key == cacheKey(method, url(path))
         entry == [IdleCall EXCEPT
                     !.method = method, !.path = path, !.headers = headers,
                     !.body = body, !.timeout = timeout,
                     !.issuedAt = now,
                     !.entryTs = lastRequestTimestamp,
                     !.entryDelay = rateLimitDelay,
                     !.entryWriter = hist.tsWriter,
                     !.prevSettled = \A d \in CallIds : Free(d),
                     !.prevDispatchAt = IF hist.last = 0 THEN -1
                                        ELSE calls[hist.last].dispatchAt,
                     !.nextAfterClear = key \in hist.cleared,
                     !.mwAtEntry = Len(middlewares)]
         wait == RateLimitWait(now, lastRequestTimestamp, rateLimitDelay)
         b == LookupBlock(entry)
     IN /\ IF wait > 0
             THEN /\ calls' = [calls EXCEPT ![c] =
                                 [entry EXCEPT !.pc = "wait",
                                               !.wakeAt = now + wait,
                                               !.waited = TRUE]]
                  /\ cache' = cache
             ELSE /\ calls' = [calls EXCEPT ![c] = b.rec]
                  /\ cache' = b.cache
        /\ hist' = [hist EXCEPT !.issued = @ + 1, !.last = c,
                                !.cleared = @ \ {key}]
  /\ UNCHANGED <<now, authToken, authHeaderName, includeBearerPrefix,
                 rateLimitDelay, lastRequestTimestamp, eventHandlers,
                 cacheLifetime, middlewares>>

\* The verb methods.
get(c, path, headers, timeout) ==
  performRequest(c, "GET", path, headers, Undefined, timeout)

post(c, path, data, headers, timeout) ==
  performRequest(c, "POST", path, headers, JSONstringify(data), timeout)

put(c, path, data, headers, timeout) ==
  performRequest(c, "PUT", path, headers, JSONstringify(data), timeout)

patch(c, path, data, headers, timeout) ==
  performRequest(c, "PATCH", path, headers, JSONstringify(data), timeout)

delete(c, path, headers, timeout) ==
  performRequest(c, "DELETE", path, headers, Undefined, timeout)

head(c, path, headers, timeout) ==
  performRequest(c, "HEAD", path, headers, Undefined, timeout)

options(c, path, headers, timeout) ==
  performRequest(c, "OPTIONS", path, headers, Undefined, timeout)

\* A wait that ends as soon as it has begun.
RateLimitTimerAtOnce(c) ==
  /\ calls[c].pc = "wait"
  /\ LET b == LookupBlock(calls[c])
     IN /\ calls' = [calls EXCEPT ![c] = b.rec]
        /\ cache' = b.cache
  /\ UNCHANGED <<now, authToken, authHeaderName, includeBearerPrefix,
                 rateLimitDelay, lastRequestTimestamp, eventHandlers,
                 cacheLifetime, middlewares, hist>>

\* The rate-limit timer of a waiting call fires, no earlier than it was set
\* for: the call goes on to the cache lookup.
RateLimitTimer(c) ==
  /\ calls[c].pc = "wait"
  /\ now >= calls[c].wakeAt
  /\ LET b == LookupBlock(calls[c])
     IN /\ calls' = [calls EXCEPT ![c] = b.rec]
        /\ cache' = b.cache
  /\ UNCHANGED <<now, authToken, authHeaderName, includeBearerPrefix,
                 rateLimitDelay, lastRequestTimestamp, eventHandlers,
                 cacheLifetime, middlewares, hist>>


\* this.eventHandlers after a step of call c: the handlers the step called
\* (the deliveries it added to the record of c) have run on the list.
HandlersAfterStep(c) ==
  AfterDeliveries(eventHandlers,
                  SubSeq(calls'[c].notified, Len(calls[c].notified) + 1,
                         Len(calls'[c].notified)))

\* applyMiddlewares resumes.  With the result of the middleware it awaited:
\* an exception goes to the catch block; a result that is not null or
\* undefined replaces the options; then the loop goes on to the next
\* middleware registered by now or ends.  With the options it returned, the
\* loop being over: the request is dispatched.
applyMiddlewares(c) ==
  /\ calls[c].pc = "mw"
  /\ LET rec == calls[c]
         p == rec.mwPending
         opts == Coalesce(p, rec.options)
     IN calls' = [calls EXCEPT ![c] =
          IF p.kind = "throw" THEN CatchBlock(rec, p.error)
          ELSE IF p.kind # "return" THEN ChainStep(rec, opts)
          ELSE DispatchBlock(rec, opts)]
  /\ eventHandlers' = HandlersAfterStep(c)
  /\ UNCHANGED <<now, authToken, authHeaderName, includeBearerPrefix,
                 rateLimitDelay, lastRequestTimestamp, cache,
                 cacheLifetime, middlewares, hist>>

\* A transport step that sends the request a second time after a first
\* non-ok status.
RespondRetries(c, status) ==
  /\ calls[c].pc = "fetch"
  /\ LET rec == calls[c]
     IN calls' = [calls EXCEPT ![c] =
          IF ResponseOk(status)
            THEN [rec EXCEPT !.pc = "json",
                             !.response = [status |-> status,
                                           body |-> Undefined]]
            ELSE IF rec.dispatches < 2 THEN DispatchBlock(rec, rec.options)
            ELSE CatchBlock([rec EXCEPT !.response =
                               [status |-> status, body |-> Undefined]],
                            HttpError(rec.method, url(rec.path), status))]
  /\ UNCHANGED <<now, authToken, authHeaderName, includeBearerPrefix,
                 rateLimitDelay, lastRequestTimestamp, eventHandlers, cache,
                 cacheLifetime, middlewares, hist>>

\* The transport answers with a status: a non-ok status is thrown as an
\* error carrying it; an ok response goes on to response.json().
Respond(c, status) ==
  /\ calls[c].pc = "fetch"
  /\ LET rec == calls[c]
     IN calls' = [calls EXCEPT ![c] =
          IF ResponseOk(status)
            THEN [rec EXCEPT !.pc = "json",
                             !.response = [status |-> status,
                                           body |-> Undefined]]
            ELSE CatchBlock([rec EXCEPT !.response =
                               [status |-> status, body |-> Undefined]],
                            HttpError(rec.method, url(rec.path), status))]
  /\ eventHandlers' = HandlersAfterStep(c)
  /\ UNCHANGED <<now, authToken, authHeaderName, includeBearerPrefix,
                 rateLimitDelay, lastRequestTimestamp, cache,
                 cacheLifetime, middlewares, hist>>

\* A transport failure that counts as a request for the rate limiter.
TransportFailureStamps(c) ==
  /\ calls[c].pc = "fetch"
  /\ calls' = [calls EXCEPT ![c] = CatchBlock(calls[c], NetworkError)]
  /\ lastRequestTimestamp' = now
  /\ UNCHANGED <<now, authToken, authHeaderName, includeBearerPrefix,
                 rateLimitDelay, eventHandlers, cache, cacheLifetime,
                 middlewares, hist>>

\* The transport fails: fetch rejects.
TransportFailure(c) ==
  /\ calls[c].pc = "fetch"
  /\ calls' = [calls EXCEPT ![c] = CatchBlock(calls[c], NetworkError)]
  /\ eventHandlers' = HandlersAfterStep(c)
  /\ UNCHANGED <<now, authToken, authHeaderName, includeBearerPrefix,
                 rateLimitDelay, lastRequestTimestamp, cache,
                 cacheLifetime, middlewares, hist>>

\* A success path that sets lastRequestTimestamp before the broadcast.
DecodeTimestampFirst(c, body) ==
  /\ calls[c].pc = "json"
  /\ LET rec == [calls[c] EXCEPT !.response.body = body]
         key == cacheKey(rec.method, url(rec.path))
         r == notifyEvent(eventHandlers, "success", body)
         told == [rec EXCEPT !.notified = @ \o r.delivered,
                             !.handlersAtEvent = eventHandlers,
                             !.removedAtEvent = hist.removed,
                             !.removedOnceAtEvent = hist.removedOnce,
                             !.decodedAt = now,
                             !.stored = Some([data |-> body, timestamp |-> now]),
                             !.tsBefore = lastRequestTimestamp,
                             !.tsAfter = now]
     IN IF body = Malformed
          THEN /\ calls' = [calls EXCEPT ![c] = CatchBlock(rec, SyntaxError)]
               /\ UNCHANGED <<cache, lastRequestTimestamp, hist>>
          ELSE /\ cache' = addToCache(cache, key, body, now)
               /\ lastRequestTimestamp' = now
               /\ hist' = [hist EXCEPT !.tsWriter = "success",
                                       !.restored = @ \cup {key}]
               /\ calls' = [calls EXCEPT ![c] =
                    IF r.thrown = None
                      THEN [told EXCEPT !.pc = "done",
                                        !.result = [kind |-> "resolved",
                                                    value |-> body]]
                      ELSE CatchBlock([told EXCEPT !.raised = r.thrown],
                                      r.thrown[1])]
  /\ UNCHANGED <<now, authToken, authHeaderName, includeBearerPrefix,
                 rateLimitDelay, eventHandlers, cacheLifetime, middlewares>>

\* response.json() settles.  A body that is not JSON is thrown as a decode
\* error.  Otherwise the decoded body is cached, the success event is
\* broadcast, lastRequestTimestamp is set and the call resolves; a handler
\* that throws during the broadcast sends the call to the catch block.
Decode(c, body) ==
  /\ calls[c].pc = "json"
  /\ LET rec == [calls[c] EXCEPT !.response.body = body]
         key == cacheKey(rec.method, url(rec.path))
         by == key :> [body |-> rec.body, headers |-> rec.headers,
                       token |-> rec.authAtDispatch.token]
         r == notifyEvent(eventHandlers, "success", body)
         told == [rec EXCEPT
                    !.broadcasts = Append(@, "success"),
                    !.notified = @ \o r.delivered,
                    !.handlersAtEvent = eventHandlers,
                    !.removedAtEvent = hist.removed,
                    !.removedOnceAtEvent = hist.removedOnce,
                    !.decodedAt = now,
                    !.stored = Some(addToCache(cache, key, body, now)[key]),
                    !.tsBefore = lastRequestTimestamp,
                    !.tsAfter = IF r.thrown = None THEN now
                                ELSE lastRequestTimestamp]
     IN IF body = Malformed
          THEN /\ calls' = [calls EXCEPT ![c] = CatchBlock(rec, SyntaxError)]
               /\ UNCHANGED <<cache, lastRequestTimestamp, hist>>
          ELSE /\ cache' = addToCache(cache, key, body, now)
               /\ IF r.thrown = None
                    THEN /\ lastRequestTimestamp' = now
                         /\ hist' = [hist EXCEPT !.tsWriter = "success",
                                                 !.restored = @ \cup {key},
                                                 !.storedBy = by @@ @]
                         /\ calls' = [calls EXCEPT ![c] =
                              [told EXCEPT !.pc = "done",
                                           !.result = [kind |-> "resolved",
                                                       value |-> body]]]
                    ELSE /\ lastRequestTimestamp' = lastRequestTimestamp
                         /\ hist' = [hist EXCEPT !.restored = @ \cup {key},
                                                 !.storedBy = by @@ @]
                         /\ calls' = [calls EXCEPT ![c] =
                              CatchBlock([told EXCEPT !.raised = r.thrown],
                                         r.thrown[1])]
  /\ eventHandlers' = HandlersAfterStep(c)
  /\ UNCHANGED <<now, authToken, authHeaderName, includeBearerPrefix,
                 rateLimitDelay, cacheLifetime, middlewares>>

\* A timer that aborts every request in flight, as with one controller for
\* the whole client.
AbortTimerShared(c) ==
  /\ calls[c].abortAt >= 0
  /\ ~calls[c].timerFired
  /\ now >= calls[c].abortAt
  /\ calls' = [d \in CallIds |->
       LET rec == IF d = c THEN [calls[d] EXCEPT !.timerFired = TRUE]
                  ELSE calls[d]
       IN IF rec.pc \in {"fetch", "json"} /\ rec.sent.signal
            THEN CatchBlock(rec, AbortError)
            ELSE rec]
  /\ UNCHANGED <<now, authToken, authHeaderName, includeBearerPrefix,
                 rateLimitDelay, lastRequestTimestamp, eventHandlers, cache,
                 cacheLifetime, middlewares, hist>>

\* A timer that fires without aborting anything.
AbortTimerFiresOnly(c) ==
  /\ calls[c].abortAt >= 0
  /\ ~calls[c].timerFired
  /\ now >= calls[c].abortAt
  /\ calls' = [calls EXCEPT ![c].timerFired = TRUE]
  /\ UNCHANGED <<now, authToken, authHeaderName, includeBearerPrefix,
                 rateLimitDelay, lastRequestTimestamp, eventHandlers, cache,
                 cacheLifetime, middlewares, hist>>

\* The abort timer of a call fires, no earlier than it was set for, and
\* aborts the call's controller.  A call that is still in fetch or in
\* response.json(), and whose fetch was given the controller's signal, is
\* rejected with the abort error; a call that has settled, or whose fetch
\* was given no signal, is not affected.
AbortTimer(c) ==
  /\ calls[c].abortAt >= 0
  /\ ~calls[c].timerFired
  /\ now >= calls[c].abortAt
  /\ LET rec == [calls[c] EXCEPT !.timerFired = TRUE]
     IN calls' = [calls EXCEPT ![c] =
          IF rec.pc \in {"fetch", "json"} /\ rec.sent.signal
            THEN CatchBlock(rec, AbortError)
            ELSE rec]
  /\ eventHandlers' = HandlersAfterStep(c)
  /\ UNCHANGED <<now, authToken, authHeaderName, includeBearerPrefix,
                 rateLimitDelay, lastRequestTimestamp, cache,
                 cacheLifetime, middlewares, hist>>

\* Time passes.
Tick ==
  /\ now < StartTime + MaxTick
  /\ now' = now + 1
  /\ UNCHANGED <<authToken, authHeaderName, includeBearerPrefix,
                 rateLimitDelay, lastRequestTimestamp, eventHandlers, cache,
                 cacheLifetime, middlewares, calls, hist>>

setAuthToken(token, headerName, bearer) ==
  /\ authToken' = Some(token)
  /\ authHeaderName' = headerName
  /\ includeBearerPrefix' = bearer
  /\ UNCHANGED <<now, rateLimitDelay, lastRequestTimestamp, eventHandlers,
                 cache, cacheLifetime, middlewares, calls, hist>>

setRateLimitDelay(delay) ==
  /\ rateLimitDelay' = delay
  /\ UNCHANGED <<now, authToken, authHeaderName, includeBearerPrefix,
                 lastRequestTimestamp, eventHandlers, cache, cacheLifetime,
                 middlewares, calls, hist>>

setLastRequestTimestamp(timestamp) ==
  /\ lastRequestTimestamp' = timestamp
  /\ hist' = [hist EXCEPT !.tsWriter = "setter"]
  /\ UNCHANGED <<now, authToken, authHeaderName, includeBearerPrefix,
                 rateLimitDelay, eventHandlers, cache, cacheLifetime,
                 middlewares, calls>>

setCacheLifetime(lifetime) ==
  /\ cacheLifetime' = lifetime
  /\ UNCHANGED <<now, authToken, authHeaderName, includeBearerPrefix,
                 rateLimitDelay, lastRequestTimestamp, eventHandlers, cache,
                 middlewares, calls, hist>>

use(middleware) ==
  /\ Len(middlewares) < MaxMiddlewares
  /\ middlewares' = Append(middlewares, middleware)
  /\ UNCHANGED <<now, authToken, authHeaderName, includeBearerPrefix,
                 rateLimitDelay, lastRequestTimestamp, eventHandlers, cache,
                 cacheLifetime, calls, hist>>

\* A clear that drops only the entries that have expired.
clearCacheExpiredOnly ==
  /\ cache' = [k \in {j \in DOMAIN cache :
                        CacheFresh(cache, j, cacheLifetime, now)} |-> cache[k]]
  /\ hist' = [hist EXCEPT !.cleared = @ \cup DOMAIN cache, !.restored = {}]
  /\ UNCHANGED <<now, authToken, authHeaderName, includeBearerPrefix,
                 rateLimitDelay, lastRequestTimestamp, eventHandlers,
                 cacheLifetime, middlewares, calls>>

clearCache ==
  /\ cache' = << >>
  /\ hist' = [hist EXCEPT !.cleared = @ \cup DOMAIN cache, !.restored = {}]
  /\ UNCHANGED <<now, authToken, authHeaderName, includeBearerPrefix,
                 rateLimitDelay, lastRequestTimestamp, eventHandlers,
                 cacheLifetime, middlewares, calls>>

addEventHandler(handler) ==
  /\ Len(eventHandlers) < MaxHandlers
  /\ eventHandlers' = Append(eventHandlers, handler)
  /\ hist' = [hist EXCEPT !.removed = @ \ {handler},
                          !.removedOnce = @ \ {handler}]
  /\ UNCHANGED <<now, authToken, authHeaderName, includeBearerPrefix,
                 rateLimitDelay, lastRequestTimestamp, cache, cacheLifetime,
                 middlewares, calls>>

removeEventHandler(handler) ==
  /\ eventHandlers' = IF indexOf(eventHandlers, handler) # 0
                        THEN spliceOne(eventHandlers,
                                       indexOf(eventHandlers, handler))
                        ELSE eventHandlers
  /\ LET n == Cardinality({i \in 1..Len(eventHandlers) :
                             eventHandlers[i] = handler})
     IN hist' = [hist EXCEPT
          !.removed = IF n >= 1 THEN @ \cup {handler} ELSE @,
          !.removedOnce = IF n = 1 THEN @ \cup {handler} ELSE @]
  /\ UNCHANGED <<now, authToken, authHeaderName, includeBearerPrefix,
                 rateLimitDelay, lastRequestTimestamp, cache, cacheLifetime,
                 middlewares, calls>>

----------------------------------------------------------------------------
\* The values the caller and the transport choose from.

Paths == {"/a", "/b"}
NoHeaders == << >>
Statuses == {200, 404}

\* The steps of the calls in progress, for the bodies the transport may send.
Progress(bodies) ==
  \/ \E c \in CallIds : RateLimitTimer(c)
  \/ \E c \in CallIds : applyMiddlewares(c)
  \/ \E c \in CallIds, s \in Statuses : Respond(c, s)
  \/ \E c \in CallIds : TransportFailure(c)
  \/ \E c \in CallIds, b \in bodies : Decode(c, b)

\* No call is in progress: the caller awaits each call before the next.
Quiet == \A c \in CallIds : Free(c)

\* The rate limiter under sequential use: calls for two keys, each issued
\* after the one before it has settled, while time passes and the caller
\* sets the delay and the timestamp.
NextRate ==
  \/ \E c \in CallIds, p \in Paths : Quiet /\ get(c, p, NoHeaders, 0)
  \/ Progress({JObj(1), Malformed})
  \/ Tick
  \/ setRateLimitDelay(2)
  \/ setLastRequestTimestamp(0)

SpecRate == Init /\ [][NextRate]_vars

\* The cache under sequential use: calls for one key, answered with truthy
\* and falsy bodies, while time passes; the caller turns the rate limit off,
\* shortens the lifetime and may register a middleware that throws.
NextCache ==
  \/ \E c \in CallIds : Quiet /\ get(c, "/a", NoHeaders, 0)
  \/ \E c \in CallIds : applyMiddlewares(c)
  \/ \E c \in CallIds, st \in Statuses : Respond(c, st)
  \/ \E c \in CallIds : TransportFailure(c)
  \/ \E c \in CallIds,
        b \in {JObj(1), JNull, JFalse, JZero, JEmptyString, Malformed} :
       Decode(c, b)
  \/ Tick
  \/ setRateLimitDelay(0)
  \/ setCacheLifetime(2)
  \/ use("throws")

SpecCache == Init /\ [][NextCache]_vars

\* clearCache among overlapping calls for one key, within one millisecond:
\* the transport answers every request with an ok response.
NextClear ==
  \/ \E c \in CallIds : get(c, "/a", NoHeaders, 0)
  \/ \E c \in CallIds : applyMiddlewares(c)
  \/ \E c \in CallIds : Respond(c, 200)
  \/ \E c \in CallIds, b \in {JObj(1), JObj(2)} : Decode(c, b)
  \/ setRateLimitDelay(0)
  \/ clearCache
  \/ use("throws")

SpecClear == Init /\ [][NextClear]_vars

\* The store: calls for two keys, one after the other, each answered with a
\* success, while time passes and the caller turns the rate limit off,
\* shortens the lifetime and clears the cache.
NextStore ==
  \/ \E c \in CallIds, p \in Paths : Quiet /\ get(c, p, NoHeaders, 0)
  \/ \E c \in CallIds : applyMiddlewares(c)
  \/ \E c \in CallIds : Respond(c, 200)
  \/ \E c \in CallIds : Decode(c, JObj(1))
  \/ Tick
  \/ setRateLimitDelay(0)
  \/ setCacheLifetime(1)
  \/ clearCache

SpecStore == Init /\ [][NextStore]_vars

\* The events under sequential use: calls for one key that succeed, fail or
\* are answered from the cache, while the caller adds handlers, some of
\* which throw, and may add one middleware,
\* which throws an error or null.
Handlers == {"hLog", "hThrow", "hThrowOnSuccess"}

NextEvents ==
  \/ \E c \in CallIds : Quiet /\ get(c, "/a", NoHeaders, 0)
  \/ \E c \in CallIds : applyMiddlewares(c)
  \/ \E c \in CallIds, st \in Statuses : Respond(c, st)
  \/ \E c \in CallIds : TransportFailure(c)
  \/ \E c \in CallIds, b \in {JObj(1), Malformed} : Decode(c, b)
  \/ setRateLimitDelay(0)
  \/ \E m \in {"throws", "throwsNull"} : middlewares = << >> /\ use(m)
  \/ \E h \in Handlers : addEventHandler(h)

SpecEvents == Init /\ [][NextEvents]_vars

\* The rate limiter under overlapping use: calls for one key, issued
\* whether or not the calls before them have settled, each answered with a
\* success, while time passes; before the first call the caller may shorten
\* the delay and set the timestamp to the time of construction.
NextRace ==
  \/ \E c \in CallIds : get(c, "/a", NoHeaders, 0)
  \/ \E c \in CallIds : RateLimitTimer(c)
  \/ \E c \in CallIds : applyMiddlewares(c)
  \/ \E c \in CallIds : Respond(c, 200)
  \/ \E c \in CallIds : Decode(c, JObj(1))
  \/ Tick
  \/ hist.issued = 0 /\ setRateLimitDelay(2)
  \/ hist.issued = 0 /\ setLastRequestTimestamp(StartTime)

SpecRace == Init /\ [][NextRace]_vars

\* Timeouts: calls for two keys, one after the other, with and without a
\* timeout, each answered with a success unless its abort timer fires
\* first, while time passes and the caller may shorten the delay, add a
\* middleware and add a handler.
Timeouts == {0, 1}

NextTimeout ==
  \/ \E c \in CallIds, p \in Paths, t \in Timeouts :
       Quiet /\ get(c, p, NoHeaders, t)
  \/ \E c \in CallIds : RateLimitTimer(c)
  \/ \E c \in CallIds : applyMiddlewares(c)
  \/ \E c \in CallIds : Respond(c, 200)
  \/ \E c \in CallIds : Decode(c, JObj(1))
  \/ \E c \in CallIds : AbortTimer(c)
  \/ Tick
  \/ setRateLimitDelay(2)
  \/ \E m \in {"markA", "freshOptions"} : middlewares = << >> /\ use(m)
  \/ eventHandlers = << >> /\ addEventHandler("hLog")

SpecTimeout == Init /\ [][NextTimeout]_vars

\* The handler list: calls for one key, one after the other, that succeed,
\* fail or are answered from the cache, while the caller adds and removes
\* handlers at any time.
NextHandlers ==
  \/ \E c \in CallIds : Quiet /\ get(c, "/a", NoHeaders, 0)
  \/ \E c \in CallIds : applyMiddlewares(c)
  \/ \E c \in CallIds, st \in Statuses : Respond(c, st)
  \/ \E c \in CallIds : Decode(c, JObj(1))
  \/ setRateLimitDelay(0)
  \/ \E h \in {"hLog", "hThrow"} : addEventHandler(h)
  \/ \E h \in {"hLog", "hThrow"} : removeEventHandler(h)

SpecHandlers == Init /\ [][NextHandlers]_vars

\* The request options: calls of every verb, with and without headers of
\* the caller, each answered with a failure status, while the caller
\* registers middlewares and may set the auth token.
Middlewares ==
  {"markA", "markB", "returnsNothing", "returnsNull", "stampInPlace"}
CallerHeaders == {NoHeaders, ("Content-Type" :> "text/plain")}

NextOptions ==
  \/ \E c \in CallIds, h \in CallerHeaders : Quiet /\ get(c, "/a", h, 0)
  \/ \E c \in CallIds, h \in CallerHeaders :
       Quiet /\ post(c, "/a", JObj(1), h, 0)
  \/ \E c \in CallIds : Quiet /\ put(c, "/a", JObj(1), NoHeaders, 0)
  \/ \E c \in CallIds : Quiet /\ patch(c, "/a", JObj(1), NoHeaders, 0)
  \/ \E c \in CallIds : Quiet /\ delete(c, "/a", NoHeaders, 0)
  \/ \E c \in CallIds : Quiet /\ head(c, "/a", NoHeaders, 0)
  \/ \E c \in CallIds : Quiet /\ options(c, "/a", NoHeaders, 0)
  \/ \E c \in CallIds : applyMiddlewares(c)
  \/ \E c \in CallIds : Respond(c, 404)
  \/ \E m \in Middlewares : use(m)
  \/ setAuthToken("abc", DEFAULT_AUTH_HEADER, TRUE)

SpecOptions == Init /\ [][NextOptions]_vars

\* Form payloads: post, put and patch, one after the other, with an object
\* or a multipart form payload as data, with and without a Content-Type of
\* the caller, each answered with an error status, while the caller adds
\* middlewares.
Payloads == {JObj(1), FormData(1)}

NextForm ==
  \/ \E c \in CallIds, d \in Payloads, h \in CallerHeaders :
       Quiet /\ post(c, "/a", d, h, 0)
  \/ \E c \in CallIds, d \in Payloads : Quiet /\ put(c, "/a", d, NoHeaders, 0)
  \/ \E c \in CallIds, d \in Payloads :
       Quiet /\ patch(c, "/a", d, NoHeaders, 0)
  \/ \E c \in CallIds : applyMiddlewares(c)
  \/ \E c \in CallIds : Respond(c, 404)
  \/ \E m \in {"markA", "clearHeaders"} : use(m)

SpecForm == Init /\ [][NextForm]_vars

\* One key, different requests: calls for one URL, one after the other, that
\* differ in method, data, caller headers and configured token, each answered
\* with a success whose body is an object or false.
NextShare ==
  \/ \E c \in CallIds, h \in CallerHeaders : Quiet /\ get(c, "/a", h, 0)
  \/ \E c \in CallIds, d \in {JObj(1), JObj(2)} :
       Quiet /\ post(c, "/a", d, NoHeaders, 0)
  \/ \E c \in CallIds : Quiet /\ put(c, "/a", JObj(1), NoHeaders, 0)
  \/ \E c \in CallIds : Quiet /\ patch(c, "/a", JObj(1), NoHeaders, 0)
  \/ \E c \in CallIds : Quiet /\ delete(c, "/a", NoHeaders, 0)
  \/ \E c \in CallIds : applyMiddlewares(c)
  \/ \E c \in CallIds : Respond(c, 200)
  \/ \E c \in CallIds, b \in {JObj(1), JFalse} : Decode(c, b)
  \/ hist.issued = 0 /\ setRateLimitDelay(0)
  \/ \E t \in {"abc", "xyz"} :
       Quiet /\ setAuthToken(t, DEFAULT_AUTH_HEADER, TRUE)

SpecShare == Init /\ [][NextShare]_vars

\* The auth header: calls, one after the other, with and without headers of the
\* caller, while the caller sets the token, the header name and the prefix
\* flag, and may add a middleware that writes the Authorization header.
Tokens == {"abc", "xyz", ""}
HeaderNames == {"Authorization", "X-Token"}
AuthMiddlewares == {"setAuth", "clearHeaders"}

NextAuth ==
  \/ \E c \in CallIds, h \in CallerHeaders : Quiet /\ get(c, "/a", h, 0)
  \/ \E c \in CallIds : Quiet /\ post(c, "/a", JObj(1), NoHeaders, 0)
  \/ \E c \in CallIds : applyMiddlewares(c)
  \/ \E c \in CallIds : Respond(c, 404)
  \/ \E m \in AuthMiddlewares : use(m)
  \/ \E t \in Tokens, n \in HeaderNames, b \in BOOLEAN : setAuthToken(t, n, b)

SpecAuth == Init /\ [][NextAuth]_vars

\* The events when handlers change the handler list: sequential calls for
\* one key that succeed or are answered with an error status, while the
\* caller adds handlers, some of which remove themselves or add a handler
\* when they are called.
ReentrantHandlers == {"hOnce", "hAddsLog", "hLog"}

NextReentrant ==
  \/ \E c \in CallIds : Quiet /\ get(c, "/a", NoHeaders, 0)
  \/ \E c \in CallIds : applyMiddlewares(c)
  \/ \E c \in CallIds, st \in {200, 404} : Respond(c, st)
  \/ \E c \in CallIds : Decode(c, JObj(1))
  \/ setRateLimitDelay(0)
  \/ \E h \in ReentrantHandlers : addEventHandler(h)

SpecReentrant == Init /\ [][NextReentrant]_vars

\* The cache under overlapping use: calls for one key, issued whether or
\* not the calls before them have settled, answered with different
\* bodies, while time passes as long as a response is being decoded.
NextOverlap ==
  \/ \E c \in CallIds : get(c, "/a", NoHeaders, 0)
  \/ \E c \in CallIds : applyMiddlewares(c)
  \/ \E c \in CallIds : Respond(c, 200)
  \/ \E c \in CallIds, b \in {JObj(1), JObj(2)} : Decode(c, b)
  \/ (\E c \in CallIds : calls[c].pc = "json") /\ Tick

SpecOverlap == Init /\ [][NextOverlap]_vars

\* The wait and the cache: calls for one key, one after the other, each
\* answered with a success, while time passes; before the first call the
\* caller may shorten the delay and the lifetime.
NextWait ==
  \/ \E c \in CallIds : Quiet /\ get(c, "/a", NoHeaders, 0)
  \/ \E c \in CallIds : RateLimitTimer(c)
  \/ \E c \in CallIds : applyMiddlewares(c)
  \/ \E c \in CallIds : Respond(c, 200)
  \/ \E c \in CallIds : Decode(c, JObj(1))
  \/ Tick
  \/ hist.issued = 0 /\ setRateLimitDelay(2)
  \/ hist.issued = 0 /\ setCacheLifetime(2)

SpecWait == Init /\ [][NextWait]_vars

\* Settling: calls for two keys, one after the other, with and without a
\* timeout, whose transport answers with a success, fails or stays
\* silent, while time passes up to the timers that are pending; before
\* the first call the caller may shorten the delay and add a middleware.
\* Waits longer than MaxTick are not explored.

\* A timer of call c is set for a time still to come.
TimerPending(c) ==
  \/ calls[c].pc = "wait" /\ now < calls[c].wakeAt
  \/ calls[c].abortAt >= 0 /\ ~calls[c].timerFired /\ now < calls[c].abortAt

\* The clock moves on towards the next timer.
TimerTick ==
  /\ \E c \in CallIds : TimerPending(c)
  /\ now' = now + 1
  /\ UNCHANGED <<authToken, authHeaderName, includeBearerPrefix,
                 rateLimitDelay, lastRequestTimestamp, eventHandlers, cache,
                 cacheLifetime, middlewares, calls, hist>>

\* The transport of call c settles: the response arrives, its body is
\* read, or the request fails.
TransportSettles(c) ==
  \/ Respond(c, 200)
  \/ Decode(c, JObj(1))
  \/ TransportFailure(c)

NextSettle ==
  \/ \E c \in CallIds, p \in Paths, t \in Timeouts :
       /\ Quiet
       /\ RateLimitWait(now, lastRequestTimestamp, rateLimitDelay) <= MaxTick
       /\ get(c, p, NoHeaders, t)
  \/ \E c \in CallIds : RateLimitTimer(c)
  \/ \E c \in CallIds : applyMiddlewares(c)
  \/ \E c \in CallIds : Respond(c, 200)
  \/ \E c \in CallIds : Decode(c, JObj(1))
  \/ \E c \in CallIds : TransportFailure(c)
  \/ \E c \in CallIds : AbortTimer(c)
  \/ TimerTick
  \/ hist.issued = 0 /\ setRateLimitDelay(2)
  \/ \E m \in {"markA", "freshOptions"} :
       hist.issued = 0 /\ middlewares = << >> /\ use(m)

\* Time passes as long as a timer is pending; a timer that is due fires;
\* a middleware that was called returns; the transport of a call without
\* a timeout settles.  The transport of a call with a timeout may stay
\* silent for ever.
SettleFairness ==
  /\ WF_vars(TimerTick)
  /\ \A c \in CallIds :
       /\ WF_vars(RateLimitTimer(c))
       /\ WF_vars(applyMiddlewares(c))
       /\ WF_vars(AbortTimer(c))
       /\ WF_vars(calls[c].timeout = 0 /\ TransportSettles(c))

SpecSettle == Init /\ [][NextSettle]_vars /\ SettleFairness

\* Timers under overlapping use: as many calls for one key as can be in
\* flight together, with and without a timeout, issued whether or not the
\* calls before them have settled, each answered with a success unless its
\* timer aborts it first, while time passes up to the timers that are
\* pending; before the first call the caller may add a handler.
NextIsolated ==
  \/ \E c \in CallIds, t \in Timeouts :
       /\ hist.issued < MaxInFlight
       /\ RateLimitWait(now, lastRequestTimestamp, rateLimitDelay) = 0
       /\ get(c, "/a", NoHeaders, t)
  \/ \E c \in CallIds : applyMiddlewares(c)
  \/ \E c \in CallIds : Respond(c, 200)
  \/ \E c \in CallIds : Decode(c, JObj(1))
  \/ \E c \in CallIds : AbortTimer(c)
  \/ TimerTick
  \/ hist.issued = 0 /\ eventHandlers = << >> /\ addEventHandler("hLog")

SpecIsolated == Init /\ [][NextIsolated]_vars

----------------------------------------------------------------------------
\* The rate limiter (SpecRate).

Dispatched(c) == calls[c].dispatchAt >= 0
Settled(c) == calls[c].pc = "done"
Resolved(c) == Settled(c) /\ calls[c].result.kind = "resolved"
Rejected(c) == Settled(c) /\ calls[c].result.kind = "rejected"

\* C1: a call issued after the calls before it have settled, when
\* lastRequestTimestamp holds the time t1 a successful call recorded and the
\* delay is D, does not start its network dispatch before t1 + D.
C1_DispatchWaitsForDelay ==
  \A c \in CallIds :
    (Dispatched(c) /\ calls[c].prevSettled /\ calls[c].entryWriter = "success")
      => calls[c].dispatchAt >= calls[c].entryTs + calls[c].entryDelay

\* A second call that had to wait after a first success has been dispatched.
C1_Witness ==
  \E c \in CallIds :
    /\ Dispatched(c) /\ calls[c].prevSettled /\ calls[c].waited
    /\ calls[c].entryWriter = "success"
    /\ calls[c].dispatchAt >= calls[c].entryTs + calls[c].entryDelay

\* C2: the dispatches of two consecutive calls that do not overlap start at
\* least the delay apart, whatever the outcome of the earlier call (the
\* caller not having overwritten the timestamp in between).
C2_SpacingWhateverTheOutcome ==
  \A c \in CallIds :
    (/\ Dispatched(c) /\ calls[c].prevSettled
     /\ calls[c].prevDispatchAt >= 0 /\ calls[c].entryWriter # "setter")
      => calls[c].dispatchAt - calls[c].prevDispatchAt >= calls[c].entryDelay

----------------------------------------------------------------------------
\* The cache (SpecCache).

\* The entry call c found under its key had not reached the end of its
\* lifetime / had reached it, by the clock and the lifetime at the lookup.
FreshAtLookup(c) ==
  /\ calls[c].lookedUp /\ calls[c].lookupHad
  /\ calls[c].lookupAt < calls[c].lookupTs + calls[c].lookupLifetime
StaleAtLookup(c) ==
  /\ calls[c].lookedUp /\ calls[c].lookupHad
  /\ calls[c].lookupAt >= calls[c].lookupTs + calls[c].lookupLifetime

RaisedBy(c, name) ==
  /\ calls[c].raised # None
  /\ "name" \in DOMAIN calls[c].raised[1]
  /\ calls[c].raised[1].name = name

\* C3: a call whose lookup finds an entry stored less than cacheLifetime ago
\* resolves with the stored body and dispatches nothing, whatever the body.
C3_FreshEntryAnswersWhateverTheBody ==
  \A c \in CallIds :
    FreshAtLookup(c) =>
      /\ Resolved(c) /\ calls[c].result.value = calls[c].lookupData
      /\ ~Dispatched(c)

\* C4 as stated: a call whose lookup finds an entry at or past the end of its
\* lifetime deletes it and, by the time it settles, has dispatched.
C4_StaleEntryDispatches ==
  \A c \in CallIds :
    StaleAtLookup(c) =>
      /\ ~calls[c].keptAfterLookup
      /\ Settled(c) => Dispatched(c)

\* C4, amended: such a call deletes the entry and is never answered from
\* it: it takes the network path, and settles either after its dispatch or,
\* with no dispatch, rejected by a middleware that threw.
C4_StaleEntryIsAMiss ==
  \A c \in CallIds :
    StaleAtLookup(c) =>
      /\ ~calls[c].keptAfterLookup
      /\ calls[c].pc \in {"mw", "fetch", "json", "done"}
      /\ calls[c].pc \in {"fetch", "json"} => Dispatched(c)
      /\ Settled(c) =>
           \/ Dispatched(c)
           \/ Rejected(c) /\ RaisedBy(c, "MiddlewareError")

\* A call has looked up an entry exactly at the end of its lifetime and has
\* been dispatched.
C4_Witness ==
  \E c \in CallIds :
    /\ StaleAtLookup(c) /\ Dispatched(c)
    /\ calls[c].lookupAt = calls[c].lookupTs + calls[c].lookupLifetime

----------------------------------------------------------------------------
\* clearCache among overlapping calls (SpecClear).

\* Call c was answered from the cache: it resolved without a dispatch.
AnsweredFromCache(c) == Resolved(c) /\ ~Dispatched(c)

\* C5 as stated: the first call issued after clearCache() for a key that was
\* cached before the clear is not answered from the cache, in every
\* interleaving with the other calls.
C5_NextCallAfterClearNotFromCache ==
  \A c \in CallIds : calls[c].nextAfterClear => ~AnsweredFromCache(c)

\* C5, amended: when no call has stored a response under the key between the
\* clear and the lookup, that call finds no entry and takes the network
\* path: it settles after its dispatch or, with no dispatch, rejected by a
\* middleware that threw.
C5_NextCallAfterClearMisses ==
  \A c \in CallIds :
    (calls[c].nextAfterClear /\ calls[c].lookedUp
     /\ ~calls[c].restoredAtLookup) =>
      /\ ~calls[c].lookupHad
      /\ ~AnsweredFromCache(c)
      /\ calls[c].pc \in {"fetch", "json"} => Dispatched(c)
      /\ Settled(c) =>
           \/ Dispatched(c)
           \/ Rejected(c) /\ RaisedBy(c, "MiddlewareError")

\* The first call after a clear, issued while another call was in progress,
\* has found no entry and has been dispatched.
C5_Witness ==
  \E c \in CallIds :
    /\ calls[c].nextAfterClear /\ ~calls[c].restoredAtLookup
    /\ ~calls[c].prevSettled /\ ~calls[c].lookupHad /\ Dispatched(c)

----------------------------------------------------------------------------
\* The events of a call (SpecEvents).

\* The "error" events that deliver error e to the handlers hs, in order.
ErrorEvents(hs, e) ==
  [i \in 1..Len(hs) |-> [handler |-> hs[i], type |-> "error", payload |-> e]]

\* The "success" events that deliver payload d to the handlers hs, in order.
SuccessEvents(hs, d) ==
  [i \in 1..Len(hs) |-> [handler |-> hs[i], type |-> "success", payload |-> d]]

\* The position of the first of the handlers hs that throws on an event of
\* the type; 0 when none does.
FirstThrower(hs, type) ==
  IF \E i \in 1..Len(hs) : HandlerThrows(hs[i], type)
    THEN CHOOSE i \in 1..Len(hs) :
           /\ HandlerThrows(hs[i], type)
           /\ \A j \in 1..(i - 1) : ~HandlerThrows(hs[j], type)
    ELSE 0

\* The "error" events delivered during call c.
ErrorsNotified(c) == SelectSeq(calls[c].notified, LAMBDA n : n.type = "error")

\* Call c was answered with a status that is not a success status.
NonOkAnswered(c) ==
  calls[c].response.status # 0 /\ calls[c].response.status \notin 200..299

\* C6 as stated: a call answered from the cache delivers a "success" event
\* carrying the cached payload to every handler registered at that time.
C6_CacheHitBroadcastsSuccess ==
  \A c \in CallIds :
    AnsweredFromCache(c) =>
      calls[c].notified =
        SuccessEvents(calls[c].handlersAtEvent, calls[c].result.value)

C8_RejectsWithTheOriginalError ==
  \A c \in CallIds :
    (Settled(c) /\ calls[c].raised # None) =>
      /\ Rejected(c)
      /\ calls[c].result.value = calls[c].raised[1]
      /\ ErrorsNotified(c) =
           ErrorEvents(calls[c].handlersAtEvent, calls[c].raised[1])

\* C8, amended: whatever was raised during a call, the call rejects.  When
\* the value raised is null or undefined, no event is broadcast and the call
\* rejects with a TypeError.  Otherwise the "error" event carrying it is
\* delivered to the registered handlers in order, up to the first that
\* throws, and the call rejects with the value that was raised when no
\* handler throws during that broadcast, with what the handler threw
\* otherwise.
C8_OriginalErrorUnlessAHandlerThrows ==
  \A c \in CallIds :
    (Settled(c) /\ calls[c].raised # None) =>
      LET hs == calls[c].handlersAtEvent
          k == FirstThrower(hs, "error")
          e == calls[c].raised[1]
      IN /\ Rejected(c)
         /\ IF e = JNull \/ e = Undefined
              THEN /\ ErrorsNotified(c) = << >>
                   /\ calls[c].result.value = [name |-> "TypeError"]
              ELSE /\ ErrorsNotified(c) =
                        ErrorEvents(IF k = 0 THEN hs ELSE SubSeq(hs, 1, k), e)
                   /\ calls[c].result.value =
                        IF k = 0 THEN e ELSE HandlerError(hs[k], "error")

\* A handler threw during the success broadcast of a call: the error event
\* carrying its exception reached both registered handlers and the call
\* rejected with that exception.
C8_Witness ==
  \E c \in CallIds :
    /\ Rejected(c) /\ RaisedBy(c, "HandlerError")
    /\ calls[c].raised[1].on = "success"
    /\ calls[c].result.value = calls[c].raised[1]
    /\ Len(calls[c].handlersAtEvent) = 2
    /\ Len(ErrorsNotified(c)) = 2

----------------------------------------------------------------------------
\* The options of a dispatched request (SpecOptions, SpecAuth).

\* The baseline options of call c: the default headers merged with the
\* caller's.
Baseline(c) ==
  [method |-> calls[c].method,
   headers |-> [k \in DOMAIN DEFAULT_HEADERS \cup DOMAIN calls[c].headers |->
                  IF k \in DOMAIN calls[c].headers THEN calls[c].headers[k]
                  ELSE DEFAULT_HEADERS[k]],
   signal |-> TRUE,
   body |-> OptionsBody(calls[c].body)]

\* What the middleware of a chain entry made of its input: what it returned
\* or, when it returned nothing, its input as it left it.
Produced(entry) ==
  LET r == MiddlewareCall(entry.mw, entry.input)
  IN IF r.kind = "value" THEN r.options
     ELSE AfterCall(entry.mw, entry.input)

\* The options with the header of the auth configuration a written over
\* them, when a holds a token that is not empty.
WithAuth(opts, a) ==
  IF a.token # None /\ a.token[1] # ""
    THEN [opts EXCEPT !.headers =
            [k \in DOMAIN opts.headers \cup {a.headerName} |->
               IF k = a.headerName
                 THEN IF a.bearer THEN "Bearer " \o a.token[1] ELSE a.token[1]
                 ELSE opts.headers[k]]]
    ELSE opts

\* The middlewares that ran for call c are the registered ones, in
\* registration order, those registered before the call among them; the
\* first received the baseline and each later one what the one before it
\* produced.
ChainInOrder(c) ==
  LET log == calls[c].mwLog
  IN /\ Len(log) >= calls[c].mwAtEntry
     /\ Len(log) <= Len(middlewares)
     /\ \A i \in 1..Len(log) : log[i].mw = middlewares[i]
     /\ Len(log) > 0 => log[1].input = Baseline(c)
     /\ \A i \in 1..(Len(log) - 1) : log[i + 1].input = Produced(log[i])

\* C9 as stated: for every dispatched request the middlewares ran in
\* registration order, each receiving what the one before it produced, and
\* with no middleware registered the dispatched options equal the baseline.
C9_ChainInOrderElseBaseline ==
  \A c \in CallIds :
    Dispatched(c) =>
      /\ ChainInOrder(c)
      /\ calls[c].mwAtEntry = 0 => calls[c].sent = Baseline(c)

\* C9, amended: for every dispatched request the middlewares ran in
\* registration order, each receiving what the one before it produced (its
\* own input when that one returned nothing), and the dispatched options are
\* what the last one produced, or the baseline when none ran, with the auth
\* header written over them when a token is configured.
C9_ChainInOrderThenAuth ==
  \A c \in CallIds :
    Dispatched(c) =>
      LET log == calls[c].mwLog
      IN /\ ChainInOrder(c)
         /\ calls[c].mwAtEntry = 0 => log = << >>
         /\ calls[c].sent =
              WithAuth(IF log = << >> THEN Baseline(c)
                       ELSE Produced(log[Len(log)]),
                       calls[c].authAtDispatch)

\* A request was dispatched after markA and then markB ran, markB on what
\* markA produced, and carries the auth header as well.
C9_Witness ==
  \E c \in CallIds :
    /\ Dispatched(c)
    /\ Len(calls[c].mwLog) = 2
    /\ calls[c].mwLog[1].mw = "markA" /\ calls[c].mwLog[2].mw = "markB"
    /\ calls[c].sent.headers["X-Mark"] = "AB"
    /\ "Authorization" \in DOMAIN calls[c].sent.headers

\* C10 as stated: every request dispatched after a setAuthToken carries the
\* header named in the latest one, valued "Bearer <token>" with the prefix
\* and "<token>" without it.
C10_TokenSetMeansHeaderCarried ==
  \A c \in CallIds :
    (Dispatched(c) /\ calls[c].authAtDispatch.token # None) =>
      LET a == calls[c].authAtDispatch
      IN /\ a.headerName \in DOMAIN calls[c].sent.headers
         /\ calls[c].sent.headers[a.headerName] =
              IF a.bearer THEN "Bearer " \o a.token[1] ELSE a.token[1]

\* C10, amended: every request dispatched after a setAuthToken with a token
\* that is not empty carries the header named in the latest one, valued
\* "Bearer <token>" with the prefix and "<token>" without it; after a
\* setAuthToken with the empty token, as before any setAuthToken, the
\* request is dispatched with the options the middleware chain produced and
\* no auth header is added.
C10_NonEmptyTokenMeansHeaderCarried ==
  \A c \in CallIds :
    Dispatched(c) =>
      LET a == calls[c].authAtDispatch
          h == calls[c].sent.headers
      IN /\ (a.token # None /\ a.token[1] # "") =>
              /\ a.headerName \in DOMAIN h
              /\ h[a.headerName] =
                   IF a.bearer THEN "Bearer " \o a.token[1] ELSE a.token[1]
         /\ a = [token |-> Some("abc"), headerName |-> "Authorization",
                 bearer |-> TRUE] => h["Authorization"] = "Bearer abc"
         /\ a = [token |-> Some("abc"), headerName |-> "X-Token",
                 bearer |-> FALSE] => h["X-Token"] = "abc"
         /\ (a.token = None \/ a.token = Some("")) =>
              calls[c].sent = calls[c].options

\* A request dispatched after setAuthToken("abc", "X-Token", false) carries
\* X-Token: abc.
C10_Witness ==
  \E c \in CallIds :
    /\ Dispatched(c)
    /\ calls[c].authAtDispatch =
         [token |-> Some("abc"), headerName |-> "X-Token", bearer |-> FALSE]
    /\ "X-Token" \in DOMAIN calls[c].sent.headers
    /\ calls[c].sent.headers["X-Token"] = "abc"

----------------------------------------------------------------------------
\* Removed handlers (SpecHandlers).

\* The handlers that received an event of call c.
Invoked(c) == {calls[c].notified[i].handler : i \in 1..Len(calls[c].notified)}

\* C11 as stated: a handler that was added and then removed receives no
\* event of a request that succeeds or fails afterwards.
C11_RemovedHandlerNotInvoked ==
  \A c \in CallIds : Invoked(c) \cap calls[c].removedAtEvent = {}

\* C11, amended: removeEventHandler(h) removes the earliest registration of
\* h.  A handler that was registered once when it was removed is no longer
\* registered and receives no event of a request that succeeds or fails
\* afterwards, until it is added again.
C11_HandlerRemovedOnceNotInvoked ==
  /\ \A i \in 1..Len(eventHandlers) : eventHandlers[i] \notin hist.removedOnce
  /\ \A c \in CallIds : Invoked(c) \cap calls[c].removedOnceAtEvent = {}

\* An event of a call was broadcast after a handler registered once had been
\* removed: the handler that is still registered received it.
C11_Witness ==
  \E c \in CallIds :
    /\ Settled(c) /\ calls[c].removedOnceAtEvent # {}
    /\ Invoked(c) # {}
    /\ Invoked(c) \cap calls[c].removedOnceAtEvent = {}

----------------------------------------------------------------------------
\* Dispatches per call (SpecEvents).

\* A middleware threw during call c: the last one called threw on its input.
MiddlewareThrew(c) ==
  /\ calls[c].mwLog # << >>
  /\ LET last == calls[c].mwLog[Len(calls[c].mwLog)]
     IN MiddlewareCall(last.mw, last.input).kind = "throw"

\* C12 as stated: a call dispatches at most once, and once it has settled it
\* has dispatched not at all when it was answered from the cache and exactly
\* once otherwise.
C12_OneDispatchUnlessCached ==
  \A c \in CallIds :
    /\ calls[c].dispatches <= 1
    /\ Settled(c) =>
         calls[c].dispatches = IF AnsweredFromCache(c) THEN 0 ELSE 1

\* C12, amended: a call dispatches at most once, and once it has settled it
\* has dispatched not at all when it was answered from the cache or rejected
\* by a middleware that threw, and exactly once otherwise, whether the
\* dispatch succeeded or failed.
C12_AtMostOneDispatch ==
  \A c \in CallIds :
    /\ calls[c].dispatches <= 1
    /\ Settled(c) =>
         calls[c].dispatches =
           IF AnsweredFromCache(c) \/ (Rejected(c) /\ MiddlewareThrew(c))
             THEN 0 ELSE 1

\* A call whose one dispatch was answered with a failure status has settled,
\* rejected, without a second dispatch.
C12_Witness ==
  \E c \in CallIds :
    /\ Rejected(c) /\ NonOkAnswered(c)
    /\ calls[c].dispatches = 1

----------------------------------------------------------------------------
\* The body of a dispatched request (SpecOptions).

\* C13 as stated: the body dispatched by post, put and patch is the JSON text
\* of the data argument, encoded once; get, delete, head and options
\* dispatch no body.  (The data argument of the calls of SpecOptions is
\* JObj(1), and no middleware of SpecOptions touches the body.)
C13_BodyEncodedOnce ==
  \A c \in CallIds :
    Dispatched(c) =>
      calls[c].sent.body =
        IF calls[c].method \in {"POST", "PUT", "PATCH"}
          THEN [type |-> "json", of |-> JObj(1)]
          ELSE Undefined

----------------------------------------------------------------------------
\* Overlapping calls and the rate limiter (SpecRace).

\* Calls c and d are both in the table, d issued while c was in progress,
\* and both read the same lastRequestTimestamp and delay on entry.
ReadTheSameTimestamp(c, d) ==
  /\ c # d
  /\ calls[c].pc # "idle" /\ calls[d].pc # "idle"
  /\ ~calls[d].prevSettled
  /\ calls[c].entryTs = calls[d].entryTs
  /\ calls[c].entryDelay = calls[d].entryDelay

\* C14: the wait of a call is computed from the lastRequestTimestamp it read
\* on entry and nothing else: a call that waits is woken for that timestamp
\* plus the delay and is dispatched no earlier, a call whose successful
\* predecessor is older than the delay does not wait, and two overlapping
\* calls that read the same timestamp and wait are woken for the same
\* instant, so that nothing keeps their dispatches apart.
C14_WaitFromEntryTimestampOnly ==
  /\ \A c \in CallIds :
       /\ calls[c].waited => calls[c].wakeAt = calls[c].entryTs + calls[c].entryDelay
       /\ (calls[c].waited /\ Dispatched(c)) =>
            calls[c].dispatchAt >= calls[c].wakeAt
  /\ \A c, d \in CallIds :
       (ReadTheSameTimestamp(c, d) /\ calls[c].waited /\ calls[d].waited) =>
         calls[c].wakeAt = calls[d].wakeAt

\* Two overlapping calls read the same lastRequestTimestamp, waited, and
\* started their dispatches less than the delay apart.
C14_Witness ==
  \E c, d \in CallIds :
    /\ ReadTheSameTimestamp(c, d)
    /\ calls[c].waited /\ calls[d].waited
    /\ Dispatched(c) /\ Dispatched(d)
    /\ calls[d].dispatchAt >= calls[c].dispatchAt
    /\ calls[d].dispatchAt - calls[c].dispatchAt < calls[d].entryDelay

----------------------------------------------------------------------------
\* The success path (SpecEvents).

\* The response of call c was decoded as JSON.
DecodedOk(c) == calls[c].decodedAt >= 0

\* The "success" events delivered during call c.
SuccessNotified(c) ==
  SelectSeq(calls[c].notified, LAMBDA n : n.type = "success")

\* C15 as stated: when the response of a call has been decoded, the body was
\* stored in the cache with the time of the decoding, the success event
\* carrying it was broadcast to the registered handlers, lastRequestTimestamp
\* was then set to that time, and the call resolved with that body.
C15_SuccessStoresNotifiesStampsResolves ==
  \A c \in CallIds :
    DecodedOk(c) =>
      LET body == calls[c].response.body
      IN /\ calls[c].stored =
              Some([data |-> body, timestamp |-> calls[c].decodedAt])
         /\ SuccessNotified(c) = SuccessEvents(calls[c].handlersAtEvent, body)
         /\ calls[c].tsAfter = calls[c].decodedAt
         /\ Resolved(c) /\ calls[c].result.value = body

\* C15, amended: when the response of a call has been decoded, the body was
\* stored in the cache with the time of the decoding and the success event
\* carrying it was then broadcast in registration order.  When no handler
\* threw, lastRequestTimestamp was then set to that time and the call
\* resolved with that body.  When a handler threw, the broadcast stopped at
\* that handler, the body stayed in the cache, lastRequestTimestamp was left
\* as it was, and the call went to the catch block with the handler's
\* exception and rejected.
C15_SuccessOrderUntilAHandlerThrows ==
  \A c \in CallIds :
    DecodedOk(c) =>
      LET body == calls[c].response.body
          hs == calls[c].handlersAtEvent
          k == FirstThrower(hs, "success")
      IN /\ calls[c].stored =
              Some([data |-> body, timestamp |-> calls[c].decodedAt])
         /\ IF k = 0
              THEN /\ SuccessNotified(c) = SuccessEvents(hs, body)
                   /\ calls[c].tsAfter = calls[c].decodedAt
                   /\ Resolved(c) /\ calls[c].result.value = body
              ELSE /\ SuccessNotified(c) = SuccessEvents(SubSeq(hs, 1, k), body)
                   /\ calls[c].tsAfter = calls[c].tsBefore
                   /\ Rejected(c)
                   /\ calls[c].raised = Some(HandlerError(hs[k], "success"))

\* A handler threw during the success broadcast of a call after the body had
\* been stored: lastRequestTimestamp was not set to the time of the decoding.
C15_Witness ==
  \E c \in CallIds :
    /\ DecodedOk(c) /\ Rejected(c)
    /\ calls[c].stored # None
    /\ calls[c].tsAfter # calls[c].decodedAt
    /\ Len(SuccessNotified(c)) >= 1

----------------------------------------------------------------------------
\* The frame of a cache hit (SpecTimeout).

\* The step in which the call of slot c is answered from the cache: on its
\* entry or when its rate-limit timer fires.
HitStep(c) ==
  /\ AnsweredFromCache(c)'
  /\ \/ calls[c].pc = "wait"
     \/ hist'.issued # hist.issued /\ hist'.last = c

\* C16: the step that answers a call from the cache leaves
\* lastRequestTimestamp and the cache store as they were, and the call has
\* run no middleware and started no abort timer, whatever its timeout.
C16_CacheHitChangesNothing ==
  [][\A c \in CallIds :
       HitStep(c) =>
         /\ lastRequestTimestamp' = lastRequestTimestamp
         /\ cache' = cache
         /\ calls'[c].mwLog = << >>
         /\ calls'[c].abortAt = -1
         /\ calls'[c].dispatches = 0]_vars

\* A call given a timeout, issued with a middleware registered, has waited
\* for the rate limit and has then been answered from the cache.
C16_Witness ==
  \E c \in CallIds :
    /\ AnsweredFromCache(c) /\ calls[c].waited
    /\ calls[c].timeout > 0
    /\ calls[c].mwAtEntry > 0

----------------------------------------------------------------------------
\* Header precedence (SpecAuth).

\* The headers the middleware chain of call c received, and those it
\* returned; with no middleware run they are the same.
ChainInHeaders(c) ==
  IF Len(calls[c].mwLog) > 0 THEN calls[c].mwLog[1].input.headers
  ELSE calls[c].options.headers
ChainOutHeaders(c) == calls[c].options.headers

\* C17: in every dispatched request the chain received the caller's headers
\* over the default ones, header by header; the chain's result replaced
\* them; and, when a token is configured, the header authHeaderName holds
\* the (optionally Bearer-prefixed) token over whatever the chain returned,
\* every other header being the one the chain returned.
C17_HeaderPrecedence ==
  \A c \in CallIds :
    Dispatched(c) =>
      LET caller == calls[c].headers
          log == calls[c].mwLog
          a == calls[c].authAtDispatch
          configured == a.token # None /\ a.token[1] # ""
          h == calls[c].sent.headers
      IN /\ DOMAIN ChainInHeaders(c) = DOMAIN DEFAULT_HEADERS \cup DOMAIN caller
         /\ \A k \in DOMAIN ChainInHeaders(c) :
              ChainInHeaders(c)[k] =
                IF k \in DOMAIN caller THEN caller[k] ELSE DEFAULT_HEADERS[k]
         /\ Len(log) > 0 =>
              ChainOutHeaders(c) = Produced(log[Len(log)]).headers
         /\ DOMAIN h = DOMAIN ChainOutHeaders(c) \cup
                         (IF configured THEN {a.headerName} ELSE {})
         /\ \A k \in DOMAIN h :
              h[k] = IF configured /\ k = a.headerName
                       THEN IF a.bearer THEN "Bearer " \o a.token[1]
                            ELSE a.token[1]
                       ELSE ChainOutHeaders(c)[k]

\* A request dispatched with the token "abc" configured on Authorization,
\* whose caller overrode Content-Type and whose chain overwrote
\* Authorization: it carries the caller's Content-Type and the token.
C17_Witness ==
  \E c \in CallIds :
    /\ Dispatched(c)
    /\ calls[c].headers = ("Content-Type" :> "text/plain")
    /\ \E i \in 1..Len(calls[c].mwLog) : calls[c].mwLog[i].mw = "setAuth"
    /\ ChainOutHeaders(c) =
         ("Content-Type" :> "text/plain" @@ "Authorization" :> "forged")
    /\ calls[c].authAtDispatch =
         [token |-> Some("abc"), headerName |-> "Authorization",
          bearer |-> TRUE]
    /\ calls[c].sent.headers =
         ("Content-Type" :> "text/plain" @@ "Authorization" :> "Bearer abc")

----------------------------------------------------------------------------
\* Middlewares that return nothing (SpecOptions).

\* Entry i of the chain of call c is a middleware that returned undefined
\* or null.
ReturnedNothing(c, i) ==
  MiddlewareCall(calls[c].mwLog[i].mw, calls[c].mwLog[i].input).kind = "nothing"

\* What was handed on after entry i of the chain of a dispatched call c: the
\* input of the next middleware or, after the last one, the options the
\* dispatch received.
HandedOn(c, i) ==
  IF i < Len(calls[c].mwLog) THEN calls[c].mwLog[i + 1].input
  ELSE calls[c].options

\* C18 as stated: in every dispatched request, after a middleware that
\* returned undefined or null the next middleware, or the dispatch, received
\* exactly the options that middleware had been given.
C18_NothingLeavesOptions ==
  \A c \in CallIds :
    Dispatched(c) =>
      \A i \in 1..Len(calls[c].mwLog) :
        ReturnedNothing(c, i) => HandedOn(c, i) = calls[c].mwLog[i].input

\* C18, amended: after a middleware that returned undefined or null the next
\* middleware, or the dispatch, received the object that middleware had been
\* given, as the middleware left it: unchanged when the middleware did not
\* write to it, with X-Stamp set when it did.
C18_NothingHandsOnTheSameObject ==
  \A c \in CallIds :
    Dispatched(c) =>
      \A i \in 1..Len(calls[c].mwLog) :
        LET e == calls[c].mwLog[i]
        IN ReturnedNothing(c, i) =>
             /\ e.mw \in {"returnsNothing", "returnsNull"} =>
                  HandedOn(c, i) = e.input
             /\ e.mw = "stampInPlace" =>
                  /\ HandedOn(c, i).headers =
                       [k \in DOMAIN e.input.headers \cup {"X-Stamp"} |->
                          IF k = "X-Stamp" THEN "1" ELSE e.input.headers[k]]
                  /\ HandedOn(c, i).method = e.input.method
                  /\ HandedOn(c, i).body = e.input.body

\* A request was dispatched after a middleware returning null and then
\* stampInPlace ran: stampInPlace was given the options the first had been
\* given, and the dispatch received them with X-Stamp set.
C18_Witness ==
  \E c \in CallIds :
    /\ Dispatched(c)
    /\ Len(calls[c].mwLog) = 2
    /\ calls[c].mwLog[1].mw = "returnsNull"
    /\ calls[c].mwLog[2].mw = "stampInPlace"
    /\ calls[c].mwLog[2].input = calls[c].mwLog[1].input
    /\ calls[c].options.headers =
         ("X-Stamp" :> "1" @@ calls[c].mwLog[1].input.headers)
    /\ calls[c].sent.headers["X-Stamp"] = "1"

----------------------------------------------------------------------------
\* The order of a broadcast (SpecEvents).

\* The handlers hs up to and including the first that throws on an event of
\* the type; all of them when none throws.
UpToFirstThrower(hs, type) ==
  IF FirstThrower(hs, type) = 0 THEN hs
  ELSE SubSeq(hs, 1, FirstThrower(hs, type))

\* C19: the events of a call are delivered within the step that settles it,
\* the "success" event before the "error" event; each event goes with one
\* payload to the registered handlers in registration order, up to and
\* including the first handler that throws on it and to none after that one;
\* what a handler throws on "success" is the error the catch block receives,
\* and what a handler throws on "error" is what the call rejects with.
C19_InOrderUntilAHandlerThrows ==
  \A c \in CallIds :
    LET hs == calls[c].handlersAtEvent
        s == SuccessNotified(c)
        e == ErrorsNotified(c)
        ks == FirstThrower(hs, "success")
        ke == FirstThrower(hs, "error")
    IN /\ calls[c].notified # << >> => Settled(c)
       /\ calls[c].notified = s \o e
       /\ s # << >> =>
            /\ s = SuccessEvents(UpToFirstThrower(hs, "success"), s[1].payload)
            /\ ks # 0 =>
                 calls[c].raised = Some(HandlerError(hs[ks], "success"))
       /\ e # << >> =>
            /\ e = ErrorEvents(UpToFirstThrower(hs, "error"), e[1].payload)
            /\ ke # 0 =>
                 /\ Rejected(c)
                 /\ calls[c].result.value = HandlerError(hs[ke], "error")

\* An error was broadcast with hThrow registered before hLog: hThrow received
\* it, hLog did not, and the call rejected with what hThrow threw.
C19_Witness ==
  \E c \in CallIds :
    /\ Settled(c)
    /\ calls[c].handlersAtEvent = <<"hThrow", "hLog">>
    /\ Len(calls[c].notified) = 1
    /\ calls[c].notified[1].handler = "hThrow"
    /\ calls[c].notified[1].type = "error"
    /\ calls[c].result = [kind |-> "rejected",
                          value |-> HandlerError("hThrow", "error")]

----------------------------------------------------------------------------
\* The timeout (SpecTimeout).

\* The abort timer of call c is set for t ms after its dispatch, and only if
\* the call was given a timeout and has been dispatched.
TimerSetAtDispatch(c) ==
  /\ calls[c].abortAt >= 0 =>
       Dispatched(c) /\ calls[c].timeout > 0
  /\ (Dispatched(c) /\ calls[c].timeout > 0) =>
       calls[c].abortAt = calls[c].dispatchAt + calls[c].timeout

\* The timeout leaves the rate-limit wait alone: a waiting call has no abort
\* timer, and a call that waited was dispatched no earlier than the end of
\* its wait and was not rejected before its dispatch.
WaitNotShortened(c) ==
  /\ calls[c].pc = "wait" => calls[c].abortAt = -1 /\ ~calls[c].timerFired
  /\ (calls[c].waited /\ Dispatched(c)) =>
       calls[c].dispatchAt >= calls[c].wakeAt
  /\ calls[c].raised = Some(AbortError) => Dispatched(c)

\* Call c was aborted: it rejected and the abort error was broadcast as an
\* "error" event to the registered handlers.
AbortedAndBroadcast(c) ==
  /\ Rejected(c)
  /\ calls[c].raised = Some(AbortError)
  /\ calls[c].result.value = AbortError
  /\ calls[c].notified = ErrorEvents(calls[c].handlersAtEvent, AbortError)

\* C20 as stated: the abort timer of a call given a timeout t > 0 is set at
\* its dispatch for t ms later; when it fires, the call has settled or is
\* aborted, rejects and its error is broadcast; the timeout does not shorten
\* the rate-limit wait.
C20_TimeoutAbortsTheCallInFlight ==
  \A c \in CallIds :
    /\ TimerSetAtDispatch(c)
    /\ WaitNotShortened(c)
    /\ calls[c].timerFired => Settled(c)
    /\ calls[c].raised = Some(AbortError) =>
         calls[c].timerFired /\ AbortedAndBroadcast(c)

\* C20, amended: as stated, for the calls whose request was dispatched with
\* the signal the baseline options carry; a call whose middleware chain
\* returned options without the signal is dispatched without it, and the
\* abort timer, though set the same way, does not settle it.
C20_TimeoutAbortsWhenTheSignalIsSent ==
  \A c \in CallIds :
    /\ TimerSetAtDispatch(c)
    /\ WaitNotShortened(c)
    /\ (calls[c].timerFired /\ calls[c].sent.signal) => Settled(c)
    /\ calls[c].raised = Some(AbortError) =>
         calls[c].timerFired /\ calls[c].sent.signal /\ AbortedAndBroadcast(c)
    /\ (Dispatched(c) /\ calls[c].mwLog = << >>) => calls[c].sent.signal
    /\ (Dispatched(c) /\ ~calls[c].sent.signal) =>
         \E i \in 1..Len(calls[c].mwLog) :
           calls[c].mwLog[i].mw = "freshOptions"

\* A call given a timeout waited for the rate limit, was dispatched at the
\* end of its wait or later, and was aborted by its timer, set for the
\* timeout after the dispatch, with a handler registered.
C20_Witness ==
  \E c \in CallIds :
    /\ calls[c].timeout > 0 /\ calls[c].waited
    /\ Dispatched(c) /\ calls[c].dispatchAt >= calls[c].wakeAt
    /\ calls[c].abortAt = calls[c].dispatchAt + calls[c].timeout
    /\ calls[c].timerFired
    /\ AbortedAndBroadcast(c)
    /\ Len(calls[c].notified) = 1

----------------------------------------------------------------------------
\* Lazy removal of cache entries (SpecStore).

\* The key of the call in slot c.
KeyOf(c) == cacheKey(calls[c].method, url(calls[c].path))

\* The step in which the call of slot c looks its key up in the cache: on
\* its entry or when its rate-limit timer fires.
LookupStep(c) ==
  /\ calls'[c].lookedUp
  /\ \/ calls[c].pc = "wait"
     \/ hist'.issued # hist.issued /\ hist'.last = c

\* The step is a clearCache().
ClearStep ==
  /\ cache' = << >>
  /\ calls' = calls
  /\ hist'.cleared = hist.cleared \cup DOMAIN cache

\* C21: an entry leaves the store only in a clearCache() or in the lookup of
\* its own key by a call that does not find it fresh; the lookup of a key
\* leaves the entries of the other keys, stale ones included, as they were.
C21_EntriesLeaveOnlyLazily ==
  [][/\ \A k \in DOMAIN cache :
          k \notin DOMAIN cache' =>
            \/ ClearStep
            \/ \E c \in CallIds :
                 /\ LookupStep(c)
                 /\ KeyOf(c)' = k
                 /\ ~CacheFresh(cache, k, cacheLifetime, now)
     /\ \A c \in CallIds :
          LookupStep(c) =>
            \A k \in DOMAIN cache \ {KeyOf(c)'} :
              k \in DOMAIN cache' /\ cache'[k] = cache[k]]_vars

\* The store holds an entry that has expired, and a call for another key
\* has looked the cache up since the entry expired.
C21_Witness ==
  \E k \in DOMAIN cache, c \in CallIds :
    /\ ~CacheFresh(cache, k, cacheLifetime, now)
    /\ calls[c].lookedUp /\ KeyOf(c) # k
    /\ calls[c].lookupAt - cache[k].timestamp >= calls[c].lookupLifetime

----------------------------------------------------------------------------
\* Multipart form payloads (SpecForm).

\* The call of slot c was made with the form payload f as its data: the verb
\* passed performRequest the JSON text of f.
CalledWithForm(c, f) == calls[c].body = JSONstringify(f)

\* C22 as stated: a request whose data is a multipart form payload is
\* dispatched with that payload as its body and with no Content-Type header.
C22_FormPayloadSentWithoutContentType ==
  \A c \in CallIds :
    (Dispatched(c) /\ CalledWithForm(c, FormData(1))) =>
      /\ calls[c].sent.body = FormData(1)
      /\ "Content-Type" \notin DOMAIN calls[c].sent.headers

----------------------------------------------------------------------------
\* One cache entry for different requests (SpecShare).

\* The entry call c found under its key was stored by a call whose body,
\* caller headers or configured token differ from those of c.
FoundEntryOfADifferentRequest(c) ==
  /\ calls[c].lookedUp /\ calls[c].lookupHad
  /\ \/ calls[c].lookupBy.body # calls[c].body
     \/ calls[c].lookupBy.headers # calls[c].headers
     \/ calls[c].lookupBy.token # calls[c].lookupToken

\* C23 as stated: a call that finds, within the lifetime, the entry an
\* earlier call with the same method and URL but a different body, different
\* caller headers or a different token stored resolves with that call's
\* response and dispatches nothing.
C23_LaterCallServedTheEarlierResponse ==
  \A c \in CallIds :
    (FoundEntryOfADifferentRequest(c) /\ FreshAtLookup(c) /\ Settled(c)) =>
      /\ ~Dispatched(c)
      /\ calls[c].result = [kind |-> "resolved", value |-> calls[c].lookupData]

\* A POST with one body and one token resolved, without a dispatch, with the
\* response stored by a POST with another body under another token.
C23_Witness ==
  \E c \in CallIds :
    /\ calls[c].method = "POST"
    /\ FreshAtLookup(c)
    /\ calls[c].lookupBy.body # calls[c].body
    /\ calls[c].lookupBy.token # calls[c].lookupToken
    /\ calls[c].lookupToken # None /\ calls[c].lookupBy.token # None
    /\ AnsweredFromCache(c)
    /\ calls[c].result.value = calls[c].lookupData

----------------------------------------------------------------------------
\* What a rejected call leaves behind (SpecEvents).

\* The store holds under the key of call c what the call found there at its
\* lookup: the same entry, or none.
EntryAsFound(c) ==
  IF KeyOf(c) \in DOMAIN cache
    THEN /\ calls[c].lookupHad
         /\ cache[KeyOf(c)] = [data |-> calls[c].lookupData,
                               timestamp |-> calls[c].lookupTs]
    ELSE TRUE

\* C24 as stated: after a rejected call the cache holds no entry the call
\* wrote and lastRequestTimestamp has the value the call found on entry.
C24_RejectedCallWritesNothing ==
  \A c \in CallIds :
    (Rejected(c) /\ calls[c].lookedUp) =>
      /\ EntryAsFound(c)
      /\ calls[c].stored = None
      /\ lastRequestTimestamp = calls[c].entryTs

\* C24, amended: after a rejected call lastRequestTimestamp has the value
\* the call found on entry; the cache holds an entry the call wrote only if
\* the response was decoded and a handler threw on the "success" event, and
\* the entry is then the decoded body with the time of the decoding.
C24_RejectedCallWritesOnlyBeforeAThrowingHandler ==
  \A c \in CallIds :
    (Rejected(c) /\ calls[c].lookedUp) =>
      /\ lastRequestTimestamp = calls[c].entryTs
      /\ IF DecodedOk(c) /\ calls[c].response.body # Malformed
           THEN /\ FirstThrower(calls[c].handlersAtEvent, "success") # 0
                /\ calls[c].stored =
                     Some([data |-> calls[c].response.body,
                           timestamp |-> calls[c].decodedAt])
                /\ cache[KeyOf(c)] = calls[c].stored[1]
           ELSE /\ calls[c].stored = None
                /\ EntryAsFound(c)

\* A call rejected by a handler that threw on "success": the cache holds
\* the body the call decoded, which was not there before, and
\* lastRequestTimestamp is as the call found it.
C24_Witness ==
  \E c \in CallIds :
    /\ Rejected(c) /\ DecodedOk(c)
    /\ ~calls[c].lookupHad
    /\ KeyOf(c) \in DOMAIN cache
    /\ cache[KeyOf(c)].data = calls[c].response.body
    /\ lastRequestTimestamp = calls[c].entryTs

----------------------------------------------------------------------------
\* The events of a dispatched call (SpecEvents).

\* C25 as stated: a dispatched call that has settled has broadcast exactly
\* one event, "success" if it resolved and "error" if it rejected.
C25_OneEventPerDispatchedCall ==
  \A c \in CallIds :
    (Dispatched(c) /\ Settled(c)) =>
      calls[c].broadcasts = IF Resolved(c) THEN <<"success">> ELSE <<"error">>

\* C25, amended: a dispatched call broadcasts nothing before it settles; a
\* call that resolved has broadcast "success" and nothing else; a call that
\* rejected has broadcast "error" last and once, preceded by "success" exactly
\* when its response was decoded and a handler threw on that event.
C25_SuccessThenErrorWhenAHandlerThrows ==
  \A c \in CallIds :
    Dispatched(c) =>
      /\ ~Settled(c) => calls[c].broadcasts = << >>
      /\ Resolved(c) =>
           /\ calls[c].broadcasts = <<"success">>
           /\ FirstThrower(calls[c].handlersAtEvent, "success") = 0
      /\ Rejected(c) =>
           calls[c].broadcasts =
             IF DecodedOk(c) THEN <<"success", "error">> ELSE <<"error">>
      /\ (Rejected(c) /\ DecodedOk(c)) =>
           /\ FirstThrower(calls[c].handlersAtEvent, "success") # 0
           /\ calls[c].raised =
                Some(HandlerError(
                  calls[c].handlersAtEvent[
                    FirstThrower(calls[c].handlersAtEvent, "success")],
                  "success"))

\* A dispatched call broadcast "success", a handler threw on it, and the
\* call broadcast "error" and rejected: hLog received both events.
C25_Witness ==
  \E c \in CallIds :
    /\ Dispatched(c) /\ Rejected(c)
    /\ calls[c].broadcasts = <<"success", "error">>
    /\ calls[c].handlersAtEvent = <<"hLog", "hThrowOnSuccess">>
    /\ Len(calls[c].notified) = 4

\* ---------------------------------------------------------------------
\* C26
\* The number of times handler h occurs in the list hs.
Registrations(hs, h) == Cardinality({i \in 1..Len(hs) : hs[i] = h})

\* The number of deliveries made to handler h by call c.
Invocations(c, h) ==
  Cardinality({i \in 1..Len(calls[c].notified) :
                 calls[c].notified[i].handler = h})

\* Call c has settled after one broadcast, made while handlers were
\* registered.
BroadcastOver(c) ==
  /\ calls[c].pc = "done"
  /\ Len(calls[c].broadcasts) = 1
  /\ calls[c].handlersAtEvent # << >>

\* C26: during one broadcast, every handler that was registered when the
\* broadcast began and is not removed during it is invoked exactly once
\* per registration, also when handlers remove or add handlers during the
\* broadcast.  (hOnce is the only handler removed during a broadcast.)
C26_EveryRemainingHandlerInvokedOnce ==
  \A c \in CallIds :
    BroadcastOver(c) =>
      \A h \in ReentrantHandlers \ {"hOnce"} :
        Invocations(c, h) = Registrations(calls[c].handlersAtEvent, h)

\* A broadcast that began with a handler that removes itself registered
\* before a log handler: the log handler, still registered after the
\* broadcast, was not invoked.
C26_Witness ==
  \E c \in CallIds :
    /\ BroadcastOver(c)
    /\ calls[c].handlersAtEvent = <<"hOnce", "hLog">>
    /\ eventHandlers = <<"hLog">>
    /\ Invocations(c, "hOnce") = 1
    /\ Invocations(c, "hLog") = 0

\* ---------------------------------------------------------------------
\* C27
\* Calls c and d, for one key, both looked the cache up before the
\* response of either was stored: each found no entry.
Overlapped(c, d) ==
  /\ c # d
  /\ calls[c].lookedUp /\ calls[d].lookedUp
  /\ KeyOf(c) = KeyOf(d)
  /\ ~calls[c].lookupHad /\ ~calls[d].lookupHad

\* Call c and the calls that overlapped with it, as far as they have
\* completed successfully.
CompletedWith(c) ==
  {e \in CallIds : (e = c \/ Overlapped(c, e)) /\ Resolved(e)}

\* No call record has been taken over by a later call: the records are
\* all the calls made so far.
EveryCallOnRecord ==
  hist.issued = Cardinality({e \in CallIds : calls[e].pc # "idle"})

\* The response of call c is stored in this step.
StoreStep(c) == calls[c].decodedAt < 0 /\ calls'[c].decodedAt >= 0

\* Past the cache lookup and the middleware pass.
PastTheChain(c) == calls[c].pc \in {"fetch", "json", "done"}

\* C27: two calls for one key that both look the cache up before either
\* response is stored each perform their own network dispatch, and the
\* call that completes last overwrites the entry of the other: once both
\* have completed the entry holds the body and the completion time of the
\* overlapping call that completed last.
C27_OverlappingCallsBothDispatchLastOneStored ==
  /\ [](\A c, d \in CallIds :
          (Overlapped(c, d) /\ PastTheChain(c) /\ PastTheChain(d)) =>
            /\ Dispatched(c) /\ Dispatched(d)
            /\ calls[c].dispatches = 1 /\ calls[d].dispatches = 1
            /\ (Resolved(c) /\ Resolved(d) /\ EveryCallOnRecord) =>
                 /\ cache[KeyOf(c)] \in
                      {calls[e].stored[1] : e \in CompletedWith(c)}
                 /\ (\A e \in CompletedWith(c) \ {d} :
                       calls[e].decodedAt < calls[d].decodedAt) =>
                      cache[KeyOf(c)] = calls[d].stored[1])
  /\ [][\A c, d \in CallIds :
          (Overlapped(c, d) /\ Resolved(d) /\ StoreStep(c)) =>
            /\ Resolved(c)'
            /\ cache'[KeyOf(c)] =
                 [data |-> calls'[c].result.value, timestamp |-> now]
            /\ calls'[c].stored = Some(cache'[KeyOf(c)])]_vars

\* Two overlapping calls have completed with different bodies; the one
\* issued first completed last, at a later time, and the entry is its
\* body and its completion time.
C27_Witness ==
  \E c, d \in CallIds :
    /\ Overlapped(c, d) /\ Resolved(c) /\ Resolved(d)
    /\ EveryCallOnRecord
    /\ hist.last = d
    /\ calls[d].decodedAt < calls[c].decodedAt
    /\ calls[c].result.value # calls[d].result.value
    /\ cache[KeyOf(c)] =
         [data |-> calls[c].result.value, timestamp |-> calls[c].decodedAt]

\* ---------------------------------------------------------------------
\* C28
\* Call c was issued less than rateLimitDelay after lastRequestTimestamp.
IssuedWithinDelay(c) ==
  /\ calls[c].pc # "idle"
  /\ calls[c].issuedAt - calls[c].entryTs < calls[c].entryDelay

\* The time at which the delay remaining when call c was issued is over.
DelayOver(c) ==
  calls[c].issuedAt
    + (calls[c].entryDelay - (calls[c].issuedAt - calls[c].entryTs))

\* The entry call c found at its lookup was fresh when c was issued.
FreshWhenIssued(c) ==
  /\ calls[c].lookedUp /\ calls[c].lookupHad
  /\ calls[c].issuedAt < calls[c].lookupTs + calls[c].lookupLifetime

\* C28: the rate-limit wait comes before the cache lookup.  A call issued
\* less than rateLimitDelay after lastRequestTimestamp looks the cache up,
\* and so settles, no earlier than the end of the remaining delay, also
\* when its key is cached; a call answered from the cache found the entry
\* fresh at the time of the lookup, and a call that found it expired at
\* that time is dispatched, whether or not the entry was fresh when the
\* call was issued.
C28_WaitThenLookup ==
  \A c \in CallIds :
    /\ calls[c].pc = "wait" => ~calls[c].lookedUp /\ ~Settled(c)
    /\ Settled(c) => calls[c].lookedUp
    /\ calls[c].lookedUp => calls[c].issuedAt <= calls[c].lookupAt
                            /\ calls[c].lookupAt <= now
    /\ (IssuedWithinDelay(c) /\ calls[c].lookedUp) =>
         /\ calls[c].waited
         /\ calls[c].lookupAt >= DelayOver(c)
    /\ AnsweredFromCache(c) => FreshAtLookup(c)
    /\ (StaleAtLookup(c) /\ PastTheChain(c)) => Dispatched(c)

\* A call that waited found, when its wait was over, an entry expired that
\* was fresh when the call was issued, and was dispatched.
C28_Witness ==
  \E c \in CallIds :
    /\ IssuedWithinDelay(c) /\ calls[c].waited
    /\ FreshWhenIssued(c) /\ StaleAtLookup(c)
    /\ Dispatched(c)

\* A call that waited was answered from the cache when its wait was over.
WaitedThenAnsweredFromCache ==
  \E c \in CallIds :
    /\ IssuedWithinDelay(c) /\ calls[c].waited
    /\ AnsweredFromCache(c)
    /\ calls[c].lookupAt > calls[c].issuedAt

\* ---------------------------------------------------------------------
\* C29
\* Call c has been issued and has not settled.
InFlight(c) == calls[c].pc \notin {"idle", "done"}

\* Call c was dispatched with a timeout and without the abort signal.
DispatchedWithoutSignal(c) ==
  /\ calls[c].pc \in {"fetch", "json"}
  /\ calls[c].timeout > 0
  /\ ~calls[c].sent.signal

\* C29 as stated: every call eventually settles, given that middlewares
\* and handlers terminate and that the transport eventually settles or the
\* call has a timeout t > 0; no call stays in the rate-limit wait for ever.
C29_EveryCallSettles ==
  \A c \in CallIds :
    /\ InFlight(c) ~> Settled(c)
    /\ (calls[c].pc = "wait") ~> (calls[c].pc # "wait")

\* C29, amended: a call leaves the rate-limit wait and the middleware
\* pass, and once it is dispatched it settles if its transport settles or
\* if it has a timeout and was dispatched with the abort signal.
C29_EveryCallSettlesUnlessTheSignalWasDropped ==
  \A c \in CallIds :
    /\ (calls[c].pc = "wait") ~> (calls[c].pc # "wait")
    /\ (calls[c].pc = "mw") ~> (calls[c].pc # "mw")
    /\ InFlight(c) ~> (Settled(c) \/ DispatchedWithoutSignal(c))
    /\ (InFlight(c) /\ calls[c].timeout > 0 /\ calls[c].sent.signal)
         ~> Settled(c)

\* A call with a timeout waited, was dispatched and was settled by its
\* timer.
C29_Witness ==
  \E c \in CallIds :
    /\ calls[c].timeout > 0 /\ calls[c].waited
    /\ calls[c].timerFired
    /\ Rejected(c) /\ calls[c].result.value = AbortError

\* ---------------------------------------------------------------------
\* C30
\* The abort timer of call c fires in this step.
TimerFires(c) == ~calls[c].timerFired /\ calls'[c].timerFired

\* C30: the abort timer of a call, when it fires, leaves every other call
\* as it is, and the cache and lastRequestTimestamp as they are; when its
\* own call has settled by then, it leaves that call's result and the
\* events delivered as they are too.
C30_TimerActsOnItsOwnCallOnly ==
  [][\A c \in CallIds :
       TimerFires(c) =>
         /\ \A d \in CallIds \ {c} : calls'[d] = calls[d]
         /\ cache' = cache
         /\ lastRequestTimestamp' = lastRequestTimestamp
         /\ Settled(c) =>
              /\ calls'[c] = [calls[c] EXCEPT !.timerFired = TRUE]
              /\ eventHandlers' = eventHandlers]_vars

\* The timer of a call fired after the call had resolved, while another
\* call, dispatched with its signal before the timer was due, was in
\* flight, and that call is still in flight.
C30_Witness ==
  \E c, d \in CallIds :
    /\ c # d
    /\ Resolved(c) /\ calls[c].timerFired
    /\ calls[c].decodedAt < calls[c].abortAt
    /\ calls[d].pc \in {"fetch", "json"} /\ calls[d].sent.signal
    /\ calls[d].dispatchAt < calls[c].abortAt

====
